---- MODULE Spec2Model ----
(***************************************************************************)
(* Model of the BLDC motor drive core (main.c, with the parts of           *)
(* pwm_ctrl.c, ui.c and faults.h it relies on): the drive state machine,   *)
(* the fault registry and fault monitor, the precharge and sensorless      *)
(* startup handlers, the speed ramp and the PI speed controller.           *)
(*                                                                         *)
(* Number representation.  The target is a 32-bit machine.  Every 32-bit   *)
(* C object (long, unsigned long) is held as the two's complement reading  *)
(* of its 32 bits, an integer in MinInt..MaxInt; an unsigned long whose    *)
(* value is 2^31 or more therefore appears as a negative number, and the   *)
(* unsigned comparisons of the code are ULt/ULe/UGt/UGe below.  All        *)
(* arithmetic that can leave 31 bits goes through the wrap-around          *)
(* operators AddW, SubW, MulW, UDiv, ... so that the model computes what   *)
(* the 32-bit code computes.                                               *)
(***************************************************************************)
EXTENDS Integers, Sequences, FiniteSets, TLC

MaxInt == 2147483647
MinInt == (-2147483647) - 1

\* ---------------------------------------------------------------------------
\* 32-bit arithmetic on two's complement readings
\* ---------------------------------------------------------------------------

\* a + b modulo 2^32
AddW(a, b) ==
    IF a >= 0 /\ b >= 0
    THEN IF b > MaxInt - a THEN (a + MinInt) + (b + MinInt) ELSE a + b
    ELSE IF a < 0 /\ b < 0
         THEN IF b < MinInt - a THEN (a - MinInt) + (b - MinInt) ELSE a + b
         ELSE a + b

\* -a modulo 2^32
NegW(a) == IF a = MinInt THEN MinInt ELSE 0 - a

\* a - b modulo 2^32
SubW(a, b) == IF b = MinInt THEN AddW(a, MinInt) ELSE AddW(a, 0 - b)

\* the low and high 16 bits of a 32-bit object, as numbers in 0..65535
Lo16(a) == a % 65536
Hi16(a) == ((a - (a % 65536)) \div 65536) % 65536

\* the 32-bit object with the given high and low halves (0..65535 each)
Join16(h, l) == IF h >= 32768 THEN ((h - 65536) * 65536) + l ELSE (h * 65536) + l

\* x * y for x, y in 0..65535, as <<high 16 bits, low 16 bits>> of the 32-bit product
MulU16(x, y) ==
    LET t1 == (x \div 256) * y
        t2 == (x % 256) * y
        lo == ((t1 % 256) * 256) + (t2 % 65536)
        hi == (t1 \div 256) + (t2 \div 65536) + (lo \div 65536)
    IN  <<hi, lo % 65536>>

\* a * b modulo 2^32
MulW(a, b) ==
    LET al == Lo16(a)
        ah == Hi16(a)
        bl == Lo16(b)
        bh == Hi16(b)
        ll == MulU16(al, bl)
        c1 == MulU16(ah, bl)[2]
        c2 == MulU16(al, bh)[2]
    IN  Join16((ll[1] + c1 + c2) % 65536, ll[2])

\* unsigned comparisons
ULt(a, b) == IF (a < 0) = (b < 0) THEN a < b ELSE b < 0
ULe(a, b) == a = b \/ ULt(a, b)
UGt(a, b) == ULt(b, a)
UGe(a, b) == ULe(b, a)

\* a << n modulo 2^32 (0 <= n <= 30)
Shl(a, n) == MulW(a, 2 ^ n)

\* logical (unsigned) a >> n, 1 <= n <= 30
UShr(a, n) ==
    IF a >= 0 THEN a \div (2 ^ n)
    ELSE ((a - MinInt) \div (2 ^ n)) + (2 ^ (31 - n))

\* unsigned a / b for a divisor 0 < b <= MaxInt.  For a dividend of 2^31 or
\* more the quotient is built from the quotient of its half.
UDivPos(a, b) ==
    IF a >= 0 THEN a \div b
    ELSE LET Fix2(q1, r1) == IF UGe(r1, b) THEN AddW(q1, 1) ELSE q1
             Fix1(q0, r0) == IF UGe(r0, b) THEN Fix2(AddW(q0, 1), SubW(r0, b))
                             ELSE Fix2(q0, r0)
             Rem(q0) == Fix1(q0, SubW(a, MulW(q0, b)))
         IN  Rem(MulW(UShr(a, 1) \div b, 2))

\* unsigned a / b.  A divisor of 2^31 or more gives 0 or 1.  The Cortex-M3
\* UDIV/SDIV instructions return 0 for a zero divisor (divide-by-zero trap
\* disabled, the reset state).
UDiv(a, b) ==
    IF b = 0 THEN 0
    ELSE IF b < 0 THEN (IF UGe(a, b) THEN 1 ELSE 0)
    ELSE UDivPos(a, b)

\* C signed division (truncation toward zero); MinInt / -1 wraps to MinInt
SDiv(a, b) ==
    IF b = 0 THEN 0
    ELSE IF a = MinInt /\ b = -1 THEN MinInt
    ELSE IF a = MinInt
         THEN LET q == UDivPos(MinInt, IF b < 0 THEN NegW(b) ELSE b)
              IN  IF b = MinInt THEN 1 ELSE IF b < 0 THEN q ELSE NegW(q)
    ELSE IF b = MinInt THEN 0
    ELSE LET q == (IF a < 0 THEN 0 - a ELSE a) \div (IF b < 0 THEN 0 - b ELSE b)
         IN  IF (a < 0) = (b < 0) THEN q ELSE 0 - q

\* ---------------------------------------------------------------------------
\* Signed arithmetic on long: overflow is undefined in C, so where the
\* mathematical result does not fit, the result is one of UBOutcomes: the
\* wrapped value the ARM instruction leaves, or either end of the range.
\* ---------------------------------------------------------------------------
UBOutcomes == {"wrap", "max", "min"}

UBValue(wrapped, ub) ==
    IF ub = "wrap" THEN wrapped ELSE IF ub = "max" THEN MaxInt ELSE MinInt

AddFits(a, b) ==
    IF a >= 0 /\ b >= 0 THEN b <= MaxInt - a
    ELSE IF a < 0 /\ b < 0 THEN b >= MinInt - a
    ELSE TRUE

SAdd(a, b, ub) == IF AddFits(a, b) THEN a + b ELSE UBValue(AddW(a, b), ub)

SubFits(a, b) ==
    IF b = MinInt THEN a < 0 ELSE AddFits(a, 0 - b)

SSub(a, b, ub) == IF SubFits(a, b) THEN a - b ELSE UBValue(SubW(a, b), ub)

MulFits(a, b) ==
    IF a = 0 \/ b = 0 THEN TRUE
    ELSE IF a = MinInt THEN b = 1
    ELSE IF b = MinInt THEN a = 1
    ELSE LET aa == IF a < 0 THEN 0 - a ELSE a
             ab == IF b < 0 THEN 0 - b ELSE b
         IN  \/ aa <= MaxInt \div ab
             \/ /\ (a < 0) # (b < 0)
                /\ aa = (MaxInt \div ab) + 1
                /\ MulW(a, b) = MinInt

SMul(a, b, ub) == IF MulFits(a, b) THEN a * b ELSE UBValue(MulW(a, b), ub)

\* a >> 16 of the signed high part: the signed number whose low 16 bits were dropped
SHi16(a) == (a - Lo16(a)) \div 65536

\* MainLongMul: the SMULL 64-bit product of two signed 32-bit numbers, bits 16..47
\* (lsrs r0, r0, #16 ; orr r0, r0, r1, lsl #16), i.e. floor(x*y / 65536) modulo 2^32
MainLongMul(lX, lY) ==
    LET xl == Lo16(lX)
        xh == SHi16(lX)
        yl == Lo16(lY)
        yh == SHi16(lY)
    IN  AddW(MulW(xh, lY), (xl * yh) + MulU16(xl, yl)[1])

\* bit test: x & (1 << n) != 0, for a mask m = 2^n
HasBit(x, m) == ((x % (2 * m)) \div m) = 1

\* ---------------------------------------------------------------------------
\* Program constants
\* ---------------------------------------------------------------------------
STATE_FLAG_FORWARD   == 1
STATE_FLAG_BACKWARD  == 0
STATE_FLAG_RUN       == 2
STATE_FLAG_STOPPING  == 4
STATE_FLAG_REV       == 8
STATE_FLAG_PRECHARGE == 16
STATE_FLAG_STARTUP   == 32

STATE_STOPPED        == 0
STATE_PRECHARGE      == STATE_FLAG_PRECHARGE + STATE_FLAG_FORWARD
STATE_STARTUP        == STATE_FLAG_STARTUP + STATE_FLAG_FORWARD
STATE_RUN            == STATE_FLAG_RUN + STATE_FLAG_FORWARD
STATE_REV            == STATE_FLAG_RUN + STATE_FLAG_REV + STATE_FLAG_FORWARD
STATE_STOPPING       == STATE_FLAG_RUN + STATE_FLAG_STOPPING + STATE_FLAG_FORWARD
STATE_BACK_PRECHARGE == STATE_FLAG_PRECHARGE + STATE_FLAG_BACKWARD
STATE_BACK_STARTUP   == STATE_FLAG_STARTUP + STATE_FLAG_BACKWARD
STATE_BACK_RUN       == STATE_FLAG_RUN + STATE_FLAG_BACKWARD
STATE_BACK_REV       == STATE_FLAG_RUN + STATE_FLAG_REV + STATE_FLAG_BACKWARD
STATE_BACK_STOPPING  == STATE_FLAG_RUN + STATE_FLAG_STOPPING + STATE_FLAG_BACKWARD

DUTY_CYCLE_MAX           == 62260
MAIN_ERROR_DEFAULT_LIMIT == 1000
MAIN_ERROR_VBUS_LIMIT    == 200
MAIN_ERROR_CURRENT_LIMIT == 100

FAULT_MASK             == 65535
FAULT_EMERGENCY_STOP   == 1
FAULT_VBUS_LOW         == 2
FAULT_VBUS_HIGH        == 4
FAULT_CURRENT_LOW      == 8
FAULT_CURRENT_HIGH     == 16
FAULT_WATCHDOG         == 32
FAULT_TEMPERATURE_HIGH == 64
FAULT_SYSTEM_ERROR     == 512
FAULT_HP_COMM          == 1024
FAULT_MOTOR_SHORT      == 4096
FAULT_CURRENT_OFFSET   == 16384
FAULT_HP_A2D           == 32768
WARN_HP_VOLTAGE_RANGE  == 262144
WARN_HALL_SPEED_RANGE  == 524288

\* the six PWM outputs (PWM_OUT_0 .. PWM_OUT_5)
PWM_OUTPUTS == 0..5

\* g_ulPWMFlags bit numbers
PWM_FLAG_NEW_DUTY_CYCLE == 1
PWM_FLAG_NEW_PRECHARGE  == 2
PWM_FLAG_SET_OUTPUT_A   == 3
PWM_FLAG_SET_OUTPUT_B   == 4
PWM_FLAG_SET_OUTPUT_C   == 5

\* the duty cycle PWMOutputOff leaves in g_ulPWMDutyCycleA/B/C (50%)
PWM_OFF_DUTY == 32768

\* g_lSpeedIntegratorMax as MainUpdateFAdjI sets it (65536*100)
INTEGRATOR_MAX == 6553600

\* the windup decay multiplier Ka of SpeedControllerPIU
Ka == 10000

\* the settle countdown loaded at the end of startup states 3 and 4
STARTUP_SETTLE == 10

\* SYSTEM_CLOCK, the 50 MHz processor clock main() configures
SYSTEM_CLOCK == 50000000

\* the PWM frequency selected by FLAG_PWM_FREQUENCY_25K
PWM_FREQUENCY == 25000

\* ---------------------------------------------------------------------------
\* State
\* ---------------------------------------------------------------------------
VARIABLES
    g_ulState,                 \* drive state machine register
    g_ucMotorStatus,           \* MOTOR_STATUS_STOP / RUN / ACCEL / DECEL
    g_ulFaultFlags,            \* fault (low 16 bits) / warning (high 16 bits) registry
    g_ulSpeed,                 \* commanded speed, 18.14 fixed point
    g_ulSpeedWhole,
    g_ulSpeedFract,
    g_ulDutyCycle,
    g_ulAngle,
    g_ulAngleDelta,
    g_ulStateCount,
    g_ulAccelRate,
    g_ulDecelRate,
    g_lSpeedIntegrator,
    g_lSpeedIntegratorWE,
    g_lSpeedIntegratorOffset,
    g_lSpeedIntegratorMax,
    g_ucIntegralOffsetUpdated,
    g_ulMeasuredSpeed,
    g_ulStartupState,
    g_ucStartupHallIndex,
    g_ulStartupPeriod,
    timer0A,                   \* timer 0 A: the interval load register and the enable bit
    g_ulStartupDutyCycle,
    g_ulStartupDutyCycleRamp,
    g_ucLocalDecayMode,
    errCnt,                    \* the five static counters of MainCheckFaults
    sPreviousMotorCurrent,     \* static of MainMillisecondTick
    g_sParameters,             \* the drive parameter block (fields used by the core)
    g_lFAdjI,
    g_lFAdjIPrev,
    g_ucIntegralGainChanged,
    g_pusBlinkRate,            \* [0] run LED, [1] fault LED
    g_pusBlinkPeriod,
    g_ulPWMDutyCycle,          \* <<A, B, C>> as published by PWMSetDutyCycle
    g_ulPWMFlags,              \* set of flag bit numbers that are 1
    pwmOutputs,                \* PWM output-enable register: enabled outputs
    pwmApplied,                \* <<A, B, C>> last programmed by PWMUpdateDutyCycle
    trapHall,                  \* hall state last passed to TrapModulate
    cnt,                       \* static of MainMillisecondTick: stale hall speed count
    g_ulHallRotorSpeed,        \* rotor speed computed by the hall interrupt
    hTicks,                    \* history: millisecond ticks handled in precharge in this run
    hCmds,                     \* history: commands and asynchronous events taken
    hLast,                     \* history: the last command or asynchronous event, its
                               \* argument, and the drive state and speed it found
    hSeq,                      \* history: the codes passed to MainSetFault since the
                               \* last MainClearFaults
    hMax,                      \* the number of commands and asynchronous events of
                               \* the explored runs
    hRamp,                     \* history: the commanded speed (whole * 1000 + fract)
                               \* at the last command or entry to a run state, and
                               \* the ticks since then that found the drive ramping up
    hTock,                     \* history: the parity (0 or 1) of the millisecond
                               \* ticks taken, in the runs that keep it; 2 in the
                               \* other runs
    pcMain                     \* where the background loop stands: between calls
                               \* ("loop"), or inside the call named by at, with
                               \* the call's argument and the outcome of its test

vars == <<g_ulState, g_ucMotorStatus, g_ulFaultFlags, g_ulSpeed, g_ulSpeedWhole,
          g_ulSpeedFract, g_ulDutyCycle, g_ulAngle, g_ulAngleDelta, g_ulStateCount,
          g_ulAccelRate, g_ulDecelRate, g_lSpeedIntegrator, g_lSpeedIntegratorWE,
          g_lSpeedIntegratorOffset, g_lSpeedIntegratorMax, g_ucIntegralOffsetUpdated,
          g_ulMeasuredSpeed, g_ulStartupState, g_ucStartupHallIndex, g_ulStartupPeriod,
          timer0A, g_ulStartupDutyCycle, g_ulStartupDutyCycleRamp, g_ucLocalDecayMode,
          errCnt,
          sPreviousMotorCurrent, g_sParameters, g_lFAdjI, g_lFAdjIPrev,
          g_ucIntegralGainChanged, g_pusBlinkRate, g_pusBlinkPeriod, g_ulPWMDutyCycle,
          g_ulPWMFlags, pwmOutputs, pwmApplied, trapHall, cnt, g_ulHallRotorSpeed,
          hTicks, hCmds, hLast, hSeq, hMax, hRamp, hTock, pcMain>>

\* the program state as one record: the handlers below are functions from state to state
St ==
    [ g_ulState |-> g_ulState, g_ucMotorStatus |-> g_ucMotorStatus,
      g_ulFaultFlags |-> g_ulFaultFlags, g_ulSpeed |-> g_ulSpeed,
      g_ulSpeedWhole |-> g_ulSpeedWhole, g_ulSpeedFract |-> g_ulSpeedFract,
      g_ulDutyCycle |-> g_ulDutyCycle, g_ulAngle |-> g_ulAngle,
      g_ulAngleDelta |-> g_ulAngleDelta, g_ulStateCount |-> g_ulStateCount,
      g_ulAccelRate |-> g_ulAccelRate, g_ulDecelRate |-> g_ulDecelRate,
      g_lSpeedIntegrator |-> g_lSpeedIntegrator,
      g_lSpeedIntegratorWE |-> g_lSpeedIntegratorWE,
      g_lSpeedIntegratorOffset |-> g_lSpeedIntegratorOffset,
      g_lSpeedIntegratorMax |-> g_lSpeedIntegratorMax,
      g_ucIntegralOffsetUpdated |-> g_ucIntegralOffsetUpdated,
      g_ulMeasuredSpeed |-> g_ulMeasuredSpeed, g_ulStartupState |-> g_ulStartupState,
      g_ucStartupHallIndex |-> g_ucStartupHallIndex,
      g_ulStartupPeriod |-> g_ulStartupPeriod, timer0A |-> timer0A,
      g_ulStartupDutyCycle |-> g_ulStartupDutyCycle,
      g_ulStartupDutyCycleRamp |-> g_ulStartupDutyCycleRamp,
      g_ucLocalDecayMode |-> g_ucLocalDecayMode, errCnt |-> errCnt,
      sPreviousMotorCurrent |-> sPreviousMotorCurrent, g_sParameters |-> g_sParameters,
      g_lFAdjI |-> g_lFAdjI, g_lFAdjIPrev |-> g_lFAdjIPrev,
      g_ucIntegralGainChanged |-> g_ucIntegralGainChanged,
      g_pusBlinkRate |-> g_pusBlinkRate, g_pusBlinkPeriod |-> g_pusBlinkPeriod,
      g_ulPWMDutyCycle |-> g_ulPWMDutyCycle, g_ulPWMFlags |-> g_ulPWMFlags,
      pwmOutputs |-> pwmOutputs, pwmApplied |-> pwmApplied, trapHall |-> trapHall,
      cnt |-> cnt, g_ulHallRotorSpeed |-> g_ulHallRotorSpeed,
      hTicks |-> hTicks, hCmds |-> hCmds,
      hLast |-> hLast, hSeq |-> hSeq, hMax |-> hMax, hRamp |-> hRamp,
      hTock |-> hTock, pcMain |-> pcMain ]

\* the next state is the record n
Commit(n) ==
    /\ g_ulState' = n.g_ulState
    /\ g_ucMotorStatus' = n.g_ucMotorStatus
    /\ g_ulFaultFlags' = n.g_ulFaultFlags
    /\ g_ulSpeed' = n.g_ulSpeed
    /\ g_ulSpeedWhole' = n.g_ulSpeedWhole
    /\ g_ulSpeedFract' = n.g_ulSpeedFract
    /\ g_ulDutyCycle' = n.g_ulDutyCycle
    /\ g_ulAngle' = n.g_ulAngle
    /\ g_ulAngleDelta' = n.g_ulAngleDelta
    /\ g_ulStateCount' = n.g_ulStateCount
    /\ g_ulAccelRate' = n.g_ulAccelRate
    /\ g_ulDecelRate' = n.g_ulDecelRate
    /\ g_lSpeedIntegrator' = n.g_lSpeedIntegrator
    /\ g_lSpeedIntegratorWE' = n.g_lSpeedIntegratorWE
    /\ g_lSpeedIntegratorOffset' = n.g_lSpeedIntegratorOffset
    /\ g_lSpeedIntegratorMax' = n.g_lSpeedIntegratorMax
    /\ g_ucIntegralOffsetUpdated' = n.g_ucIntegralOffsetUpdated
    /\ g_ulMeasuredSpeed' = n.g_ulMeasuredSpeed
    /\ g_ulStartupState' = n.g_ulStartupState
    /\ g_ucStartupHallIndex' = n.g_ucStartupHallIndex
    /\ g_ulStartupPeriod' = n.g_ulStartupPeriod
    /\ timer0A' = n.timer0A
    /\ g_ulStartupDutyCycle' = n.g_ulStartupDutyCycle
    /\ g_ulStartupDutyCycleRamp' = n.g_ulStartupDutyCycleRamp
    /\ g_ucLocalDecayMode' = n.g_ucLocalDecayMode
    /\ errCnt' = n.errCnt
    /\ sPreviousMotorCurrent' = n.sPreviousMotorCurrent
    /\ g_sParameters' = n.g_sParameters
    /\ g_lFAdjI' = n.g_lFAdjI
    /\ g_lFAdjIPrev' = n.g_lFAdjIPrev
    /\ g_ucIntegralGainChanged' = n.g_ucIntegralGainChanged
    /\ g_pusBlinkRate' = n.g_pusBlinkRate
    /\ g_pusBlinkPeriod' = n.g_pusBlinkPeriod
    /\ g_ulPWMDutyCycle' = n.g_ulPWMDutyCycle
    /\ g_ulPWMFlags' = n.g_ulPWMFlags
    /\ pwmOutputs' = n.pwmOutputs
    /\ pwmApplied' = n.pwmApplied
    /\ trapHall' = n.trapHall
    /\ cnt' = n.cnt
    /\ g_ulHallRotorSpeed' = n.g_ulHallRotorSpeed
    /\ hTicks' = n.hTicks
    /\ hCmds' = n.hCmds
    /\ hLast' = n.hLast
    /\ hSeq' = n.hSeq
    /\ hMax' = n.hMax
    /\ hRamp' = n.hRamp
    /\ hTock' = n.hTock
    /\ pcMain' = n.pcMain

\* ---------------------------------------------------------------------------
\* PWM control (pwm_ctrl.c)
\* ---------------------------------------------------------------------------
MainIsFaulted(s) == Lo16(s.g_ulFaultFlags) # 0

\* fault injection: the drive counts as stopped while it precharges
MainIsRunningAfterPrecharge(s) ==
    IF s.g_ulState = STATE_STOPPED \/ HasBit(s.g_ulState, STATE_FLAG_PRECHARGE)
    THEN 0 ELSE 1

MainIsRunning(s) == IF s.g_ulState = STATE_STOPPED THEN 0 ELSE 1

\* programs the pulse widths from the published duty cycles
PWMUpdateDutyCycle(s) == [s EXCEPT !.pwmApplied = s.g_ulPWMDutyCycle]

PWMSetDutyCycle(s, ulDutyCycleA, ulDutyCycleB, ulDutyCycleC) ==
    [s EXCEPT !.g_ulPWMDutyCycle = <<ulDutyCycleA, ulDutyCycleB, ulDutyCycleC>>,
              !.g_ulPWMFlags = @ \cup {PWM_FLAG_NEW_DUTY_CYCLE}]

PWMOutputPrecharge(s) ==
    IF MainIsFaulted(s) THEN s
    ELSE [s EXCEPT !.pwmOutputs = {},
                   !.g_ulPWMFlags = @ \cup {PWM_FLAG_NEW_PRECHARGE}]

PWMOutputOn(s) ==
    IF MainIsFaulted(s) THEN s ELSE [s EXCEPT !.pwmOutputs = PWM_OUTPUTS]

PWMOutputTrapezoid(s, ulEnable) ==
    IF MainIsFaulted(s) THEN s ELSE [s EXCEPT !.pwmOutputs = ulEnable]

PWMOutputOff(s) ==
    PWMUpdateDutyCycle([s EXCEPT !.pwmOutputs = {},
                                 !.g_ulPWMDutyCycle =
                                     <<PWM_OFF_DUTY, PWM_OFF_DUTY, PWM_OFF_DUTY>>])

\* the precharge sequencer PWM0IntHandler runs on each millisecond event
PWMPrechargeStep(s) ==
    IF PWM_FLAG_NEW_PRECHARGE \in s.g_ulPWMFlags
    THEN [s EXCEPT !.g_ulPWMFlags =
                       (@ \ {PWM_FLAG_NEW_PRECHARGE}) \cup {PWM_FLAG_SET_OUTPUT_A}]
    ELSE IF PWM_FLAG_SET_OUTPUT_A \in s.g_ulPWMFlags
    THEN [s EXCEPT !.g_ulPWMFlags =
                       (@ \ {PWM_FLAG_SET_OUTPUT_A}) \cup {PWM_FLAG_SET_OUTPUT_B},
                   !.pwmOutputs = @ \cup {1}]
    ELSE IF PWM_FLAG_SET_OUTPUT_B \in s.g_ulPWMFlags
    THEN [s EXCEPT !.g_ulPWMFlags =
                       (@ \ {PWM_FLAG_SET_OUTPUT_B}) \cup {PWM_FLAG_SET_OUTPUT_C},
                   !.pwmOutputs = @ \cup {3}]
    ELSE IF PWM_FLAG_SET_OUTPUT_C \in s.g_ulPWMFlags
    THEN [s EXCEPT !.g_ulPWMFlags = @ \ {PWM_FLAG_SET_OUTPUT_C},
                   !.pwmOutputs = @ \cup {5}]
    ELSE s

\* one PWM period interrupt; bMillisecond says whether this period completes a
\* millisecond (g_ulPWMMillisecondCount >= g_ulPWMFrequency)
PWM0IntHandler(s, bMillisecond) ==
    LET s1 == IF PWM_FLAG_NEW_DUTY_CYCLE \in s.g_ulPWMFlags
              THEN [PWMUpdateDutyCycle(s) EXCEPT
                        !.g_ulPWMFlags = @ \ {PWM_FLAG_NEW_DUTY_CYCLE}]
              ELSE s
    IN  IF bMillisecond THEN PWMPrechargeStep(s1) ELSE s1

\* ---------------------------------------------------------------------------
\* LED blink requests (ui.c)
\* ---------------------------------------------------------------------------
UILEDBlink(s, ulIdx, usRate, usPeriod) ==
    IF usPeriod = 0 \/ usRate = usPeriod
    THEN [s EXCEPT !.g_pusBlinkRate[ulIdx] = 0]
    ELSE [s EXCEPT !.g_pusBlinkRate[ulIdx] = usRate,
                   !.g_pusBlinkPeriod[ulIdx] = usPeriod]

UIRunLEDBlink(s, usRate, usPeriod) == UILEDBlink(s, 0, usRate, usPeriod)

UIFaultLEDBlink(s, usRate, usPeriod) == UILEDBlink(s, 1, usRate, usPeriod)

\* ---------------------------------------------------------------------------
\* Commands and fault registry (main.c)
\* ---------------------------------------------------------------------------
\* fault injection: an emergency stop that leaves the speed integrator loaded
MainEmergencyStopKeepsIntegrator(s) ==
    LET s1 == UIRunLEDBlink(s, 200, 25)
        s2 == [s1 EXCEPT !.g_ulState = STATE_STOPPED,
                         !.g_ucMotorStatus = "STOP"]
        s3 == PWMOutputOff(s2)
        s4 == PWMSetDutyCycle([s3 EXCEPT !.g_ulDutyCycle = 0], 0, 0, 0)
    IN  [s4 EXCEPT !.g_ulSpeed = 0,
                   !.g_ulSpeedWhole = 0,
                   !.g_ulSpeedFract = 0,
                   !.g_ulAngle = 0,
                   !.g_ulAngleDelta = 0,
                   !.g_ulAccelRate = Shl(s.g_sParameters.usAccel, 16),
                   !.g_ulDecelRate = Shl(s.g_sParameters.usDecel, 16)]

MainEmergencyStop(s) ==
    LET s1 == UIRunLEDBlink(s, 200, 25)
        s2 == [s1 EXCEPT !.g_ulState = STATE_STOPPED,
                         !.g_ucMotorStatus = "STOP"]
        s3 == PWMOutputOff(s2)
        s4 == PWMSetDutyCycle([s3 EXCEPT !.g_ulDutyCycle = 0], 0, 0, 0)
    IN  [s4 EXCEPT !.g_ulSpeed = 0,
                   !.g_ulSpeedWhole = 0,
                   !.g_ulSpeedFract = 0,
                   !.g_ulAngle = 0,
                   !.g_ulAngleDelta = 0,
                   !.g_ulAccelRate = Shl(s.g_sParameters.usAccel, 16),
                   !.g_ulDecelRate = Shl(s.g_sParameters.usDecel, 16),
                   !.g_lSpeedIntegrator = 0]

\* MainEmergencyStop as far as the first ulWritten of the three phase values
\* that PWMOutputOff writes, one after the other, with no interrupt masked but
\* those MainEmergencyStop masks itself (INT_PWM1 and INT_PWM2)
MainEmergencyStopBegin(s, ulWritten) ==
    LET s1 == UIRunLEDBlink(s, 200, 25)
    IN  [s1 EXCEPT !.g_ulState = STATE_STOPPED,
                   !.g_ucMotorStatus = "STOP",
                   !.pwmOutputs = {},
                   !.g_ulPWMDutyCycle = [i \in 1..3 |-> IF i <= ulWritten
                                                        THEN PWM_OFF_DUTY ELSE @[i]]]

\* MainEmergencyStop from the remaining phase values of PWMOutputOff on
\* (s has the drive state, the outputs and the first phase values written)
MainEmergencyStopEnd(s) ==
    LET s3 == PWMUpdateDutyCycle(
                  [s EXCEPT !.g_ulPWMDutyCycle =
                                <<PWM_OFF_DUTY, PWM_OFF_DUTY, PWM_OFF_DUTY>>])
        s4 == PWMSetDutyCycle([s3 EXCEPT !.g_ulDutyCycle = 0], 0, 0, 0)
    IN  [s4 EXCEPT !.g_ulSpeed = 0,
                   !.g_ulSpeedWhole = 0,
                   !.g_ulSpeedFract = 0,
                   !.g_ulAngle = 0,
                   !.g_ulAngleDelta = 0,
                   !.g_ulAccelRate = Shl(s.g_sParameters.usAccel, 16),
                   !.g_ulDecelRate = Shl(s.g_sParameters.usDecel, 16),
                   !.g_lSpeedIntegrator = 0]

\* fault injection: a registry in which the newest code always wins
FaultRegistryOverwrites(ulFlags, ulFaultFlag) == ulFaultFlag

\* the registry MainSetFault leaves: the new code is taken only if nothing is
\* pending, or a warning is pending and the new code is a fault
FaultRegistry(ulFlags, ulFaultFlag) ==
    IF ulFlags = 0 \/ (ULt(ulFaultFlag, 65535) /\ UGt(ulFlags, 65535))
    THEN ulFaultFlag
    ELSE ulFlags

\* fault injection: a registry write that records the fault and arms the
\* indicator but does not stop the drive
MainSetFaultNoStop(s, ulFaultFlag) ==
    LET s1 == [s EXCEPT !.g_ulFaultFlags = FaultRegistry(@, ulFaultFlag)]
    IN  IF Lo16(s1.g_ulFaultFlags) # 0
        THEN UIFaultLEDBlink(s1, 20, 10)
        ELSE UIFaultLEDBlink(s1, 200, 100)

\* fault injection: a registry write that stops the drive for any pending
\* code, warnings included
MainSetFaultStopsOnWarning(s, ulFaultFlag) ==
    LET s1 == [s EXCEPT !.g_ulFaultFlags = FaultRegistry(@, ulFaultFlag)]
    IN  IF s1.g_ulFaultFlags # 0
        THEN UIFaultLEDBlink(MainEmergencyStop(s1), 20, 10)
        ELSE UIFaultLEDBlink(s1, 200, 100)

MainSetFault(s, ulFaultFlag) ==
    LET s1 == [s EXCEPT !.g_ulFaultFlags = FaultRegistry(@, ulFaultFlag)]
    IN  IF Lo16(s1.g_ulFaultFlags) # 0
        THEN UIFaultLEDBlink(MainEmergencyStop(s1), 20, 10)
        ELSE UIFaultLEDBlink(s1, 200, 100)

\* the test MainSetFault makes before it writes the registry
MainSetFaultTest(ulFlags, ulFaultFlag) ==
    ulFlags = 0 \/ (ULt(ulFaultFlag, 65535) /\ UGt(ulFlags, 65535))

\* MainSetFault from the registry write on, bTaken being the outcome of the test
MainSetFaultWrite(s, ulFaultFlag, bTaken) ==
    LET s1 == IF bTaken THEN [s EXCEPT !.g_ulFaultFlags = ulFaultFlag] ELSE s
    IN  IF Lo16(s1.g_ulFaultFlags) # 0
        THEN UIFaultLEDBlink(MainEmergencyStop(s1), 20, 10)
        ELSE UIFaultLEDBlink(s1, 200, 100)

MainClearFaults(s) ==
    UIFaultLEDBlink([s EXCEPT !.g_ulFaultFlags = 0], 0, 0)

\* fault injection: a run command that does not look at the fault registry
MainRunIgnoresFaults(s) ==
    IF s.g_ulState = STATE_STOPPED
    THEN LET s1 == [s EXCEPT !.g_ulAccelRate = Shl(s.g_sParameters.usAccel, 16),
                             !.g_ulDecelRate = Shl(s.g_sParameters.usDecel, 16)]
             s2 == UIRunLEDBlink(s1, 200, 175)
         IN  [s2 EXCEPT !.pwmOutputs = {},
                        !.g_ulPWMFlags = @ \cup {PWM_FLAG_NEW_PRECHARGE},
                        !.g_ulStateCount = s.g_sParameters.ucPrechargeTime + 6,
                        !.g_ulState = IF s.g_sParameters.FLAG_DIR = "FORWARD"
                                      THEN STATE_PRECHARGE
                                      ELSE STATE_BACK_PRECHARGE]
    ELSE IF s.g_ulState = STATE_STOPPING
    THEN [s EXCEPT !.g_ulState = STATE_RUN]
    ELSE IF s.g_ulState = STATE_BACK_STOPPING
    THEN [s EXCEPT !.g_ulState = STATE_BACK_RUN]
    ELSE s

\* fault injection: a run command that leaves out the six milliseconds of the
\* phased-in precharge
MainRunShortPrecharge(s) ==
    IF MainIsFaulted(s) THEN s
    ELSE IF s.g_ulState = STATE_STOPPED
    THEN LET s1 == [s EXCEPT !.g_ulAccelRate = Shl(s.g_sParameters.usAccel, 16),
                             !.g_ulDecelRate = Shl(s.g_sParameters.usDecel, 16)]
             s2 == PWMOutputPrecharge(UIRunLEDBlink(s1, 200, 175))
         IN  [s2 EXCEPT !.g_ulStateCount = s.g_sParameters.ucPrechargeTime,
                        !.g_ulState = IF s.g_sParameters.FLAG_DIR = "FORWARD"
                                      THEN STATE_PRECHARGE
                                      ELSE STATE_BACK_PRECHARGE]
    ELSE IF s.g_ulState = STATE_STOPPING
    THEN [s EXCEPT !.g_ulState = STATE_RUN]
    ELSE IF s.g_ulState = STATE_BACK_STOPPING
    THEN [s EXCEPT !.g_ulState = STATE_BACK_RUN]
    ELSE s

\* fault injection: a run command that restarts the ramp from zero when it
\* cancels a stop
MainRunRestartsRamp(s) ==
    IF MainIsFaulted(s) THEN s
    ELSE IF s.g_ulState = STATE_STOPPED
    THEN [PWMOutputPrecharge(
              UIRunLEDBlink([s EXCEPT !.g_ulAccelRate = Shl(s.g_sParameters.usAccel, 16),
                                      !.g_ulDecelRate = Shl(s.g_sParameters.usDecel, 16)],
                            200, 175))
              EXCEPT !.g_ulStateCount = s.g_sParameters.ucPrechargeTime + 6,
                     !.g_ulState = IF s.g_sParameters.FLAG_DIR = "FORWARD"
                                   THEN STATE_PRECHARGE
                                   ELSE STATE_BACK_PRECHARGE]
    ELSE IF s.g_ulState \in {STATE_STOPPING, STATE_BACK_STOPPING}
    THEN [s EXCEPT !.g_ulState = @ - STATE_FLAG_STOPPING,
                   !.g_ulSpeed = 0, !.g_ulSpeedWhole = 0, !.g_ulSpeedFract = 0]
    ELSE s

\* the section of MainRun that runs with the millisecond interrupt masked
MainRunMasked(s) ==
    IF s.g_ulState = STATE_STOPPED
    THEN LET s1 == [s EXCEPT !.g_ulAccelRate = Shl(s.g_sParameters.usAccel, 16),
                             !.g_ulDecelRate = Shl(s.g_sParameters.usDecel, 16)]
             s2 == PWMOutputPrecharge(UIRunLEDBlink(s1, 200, 175))
         IN  [s2 EXCEPT !.g_ulStateCount = s.g_sParameters.ucPrechargeTime + 6,
                        !.g_ulState = IF s.g_sParameters.FLAG_DIR = "FORWARD"
                                      THEN STATE_PRECHARGE
                                      ELSE STATE_BACK_PRECHARGE]
    ELSE IF s.g_ulState = STATE_STOPPING
    THEN [s EXCEPT !.g_ulState = STATE_RUN]
    ELSE IF s.g_ulState = STATE_BACK_STOPPING
    THEN [s EXCEPT !.g_ulState = STATE_BACK_RUN]
    ELSE s

MainRun(s) == IF MainIsFaulted(s) THEN s ELSE MainRunMasked(s)

\* fault injection: a stop command that also stops a precharging drive at once
MainStopInPrecharge(s) ==
    LET s1 == IF s.g_ulState = STATE_RUN
              THEN [s EXCEPT !.g_ulDecelRate =
                                 IF s.g_ucMotorStatus # "DECEL"
                                 THEN Shl(s.g_sParameters.usDecel, 16) ELSE @,
                             !.g_ulState = STATE_STOPPING]
              ELSE s
        s2 == IF s1.g_ulState = STATE_BACK_RUN
              THEN [s1 EXCEPT !.g_ulDecelRate =
                                  IF s1.g_ucMotorStatus # "DECEL"
                                  THEN Shl(s1.g_sParameters.usDecel, 16) ELSE @,
                              !.g_ulState = STATE_BACK_STOPPING]
              ELSE s1
    IN  IF HasBit(s2.g_ulState, STATE_FLAG_STARTUP) \/
           HasBit(s2.g_ulState, STATE_FLAG_PRECHARGE)
        THEN PWMOutputOff([UIRunLEDBlink(s2, 200, 25) EXCEPT
                               !.g_ulState = STATE_STOPPED,
                               !.g_ucMotorStatus = "STOP"])
        ELSE s2

\* fault injection: a stop command that adds the stopping flag to whatever
\* precharging or running state it finds
MainStopFromAnyState(s) ==
    IF /\ HasBit(s.g_ulState, STATE_FLAG_RUN) \/ HasBit(s.g_ulState, STATE_FLAG_PRECHARGE)
       /\ ~HasBit(s.g_ulState, STATE_FLAG_STOPPING)
    THEN [s EXCEPT !.g_ulState = @ + STATE_FLAG_STOPPING]
    ELSE IF HasBit(s.g_ulState, STATE_FLAG_STARTUP)
    THEN PWMOutputOff([UIRunLEDBlink(s, 200, 25) EXCEPT
                           !.g_ulState = STATE_STOPPED,
                           !.g_ucMotorStatus = "STOP"])
    ELSE s

\* fault injection: a stop command that always resets the deceleration rate
MainStopResetsRate(s) ==
    IF s.g_ulState \in {STATE_RUN, STATE_BACK_RUN}
    THEN [s EXCEPT !.g_ulDecelRate = Shl(s.g_sParameters.usDecel, 16),
                   !.g_ulState = @ + STATE_FLAG_STOPPING]
    ELSE IF HasBit(s.g_ulState, STATE_FLAG_STARTUP)
    THEN PWMOutputOff([UIRunLEDBlink(s, 200, 25) EXCEPT
                           !.g_ulState = STATE_STOPPED,
                           !.g_ucMotorStatus = "STOP"])
    ELSE s

MainStop(s) ==
    LET s1 == IF s.g_ulState = STATE_RUN
              THEN [s EXCEPT !.g_ulDecelRate =
                                 IF s.g_ucMotorStatus # "DECEL"
                                 THEN Shl(s.g_sParameters.usDecel, 16) ELSE @,
                             !.g_ulState = STATE_STOPPING]
              ELSE s
        s2 == IF s1.g_ulState = STATE_BACK_RUN
              THEN [s1 EXCEPT !.g_ulDecelRate =
                                  IF s1.g_ucMotorStatus # "DECEL"
                                  THEN Shl(s1.g_sParameters.usDecel, 16) ELSE @,
                              !.g_ulState = STATE_BACK_STOPPING]
              ELSE s1
    IN  IF HasBit(s2.g_ulState, STATE_FLAG_STARTUP)
        THEN PWMOutputOff([UIRunLEDBlink(s2, 200, 25) EXCEPT
                               !.g_ulState = STATE_STOPPED,
                               !.g_ucMotorStatus = "STOP"])
        ELSE s2

\* fault injection: a direction command whose second test also matches the
\* reversing state its first test has just entered
MainSetDirectionDoesBoth(s, bForward) ==
    IF bForward
    THEN IF s.g_ulState \in {STATE_BACK_RUN, STATE_REV}
         THEN [s EXCEPT !.g_ulState = STATE_RUN] ELSE s
    ELSE IF s.g_ulState \in {STATE_RUN, STATE_BACK_REV}
         THEN [s EXCEPT !.g_ulState = STATE_BACK_RUN] ELSE s

MainSetDirection(s, bForward) ==
    IF bForward
    THEN LET s1 == IF s.g_ulState = STATE_BACK_RUN
                   THEN [s EXCEPT !.g_ulDecelRate =
                                      IF s.g_ucMotorStatus # "DECEL"
                                      THEN Shl(s.g_sParameters.usDecel, 16) ELSE @,
                                  !.g_ulState = STATE_BACK_REV]
                   ELSE s
         IN  IF s1.g_ulState = STATE_REV
             THEN [s1 EXCEPT !.g_ulState = STATE_RUN] ELSE s1
    ELSE LET s1 == IF s.g_ulState = STATE_RUN
                   THEN [s EXCEPT !.g_ulDecelRate =
                                      IF s.g_ucMotorStatus # "DECEL"
                                      THEN Shl(s.g_sParameters.usDecel, 16) ELSE @,
                                  !.g_ulState = STATE_REV]
                   ELSE s
         IN  IF s1.g_ulState = STATE_BACK_REV
             THEN [s1 EXCEPT !.g_ulState = STATE_BACK_RUN] ELSE s1

\* MainUpdateFAdjI; ub selects the outcome of the signed multiplication when its
\* mathematical result does not fit a long
MainUpdateFAdjI(s, lNewFAdjI, ub) ==
    IF lNewFAdjI = 0
    THEN [s EXCEPT !.g_lSpeedIntegratorMax = 0,
                   !.g_lSpeedIntegrator = 0,
                   !.g_sParameters.lFAdjI = lNewFAdjI]
    ELSE [s EXCEPT !.g_lSpeedIntegratorMax = INTEGRATOR_MAX,
                   !.g_lSpeedIntegrator =
                       SMul(SDiv(s.g_lSpeedIntegrator, lNewFAdjI),
                            s.g_sParameters.lFAdjI, ub),
                   !.g_sParameters.lFAdjI = lNewFAdjI]

\* ---------------------------------------------------------------------------
\* Commutation
\* ---------------------------------------------------------------------------
\* the PWM outputs the six-step pattern enables for a hall state: the high
\* side of one phase and the low side of the next
TrapEnable(ulHall) == {2 * (ulHall % 3), (2 * ((ulHall + 1) % 3)) + 1}

TrapModulate(s, ulHall) ==
    PWMOutputTrapezoid([s EXCEPT !.trapHall = ulHall], TrapEnable(ulHall))

\* the hall edge interrupt handler: commutates for the hall state read from the pins
GPIOBIntHandler(s, ulHall) == TrapModulate(s, ulHall)

ucHallSequence == <<5, 1, 3, 2, 6, 4>>

\* fault injection: a commutation timer that does not look at the run flag
Timer0AIntHandlerAnyState(s, ulBEMFNextHall) ==
    IF s.g_sParameters.ucModulationType # "SENSORLESS" THEN s
    ELSE IF HasBit(s.g_ulState, STATE_FLAG_STARTUP)
    THEN [TrapModulate(s, ucHallSequence[s.g_ucStartupHallIndex + 1]) EXCEPT
              !.g_ucStartupHallIndex =
                  IF HasBit(s.g_ulState, STATE_FLAG_FORWARD)
                  THEN (IF ((@ + 1) % 256) > 5 THEN 0 ELSE (@ + 1) % 256)
                  ELSE (IF ((@ - 1) % 256) > 5 THEN 5 ELSE (@ - 1) % 256),
              !.timer0A = [ulLoad |-> s.g_ulStartupPeriod, bEnabled |-> TRUE]]
    ELSE TrapModulate(s, ulBEMFNextHall)

\* fault injection: a commutation timer that steps the startup sequence
\* upward whatever the direction
Timer0AIntHandlerUpward(s, ulBEMFNextHall) ==
    IF s.g_sParameters.ucModulationType # "SENSORLESS" THEN s
    ELSE IF HasBit(s.g_ulState, STATE_FLAG_STARTUP)
    THEN [TrapModulate(s, ucHallSequence[s.g_ucStartupHallIndex + 1]) EXCEPT
              !.g_ucStartupHallIndex = IF ((@ + 1) % 256) > 5 THEN 0 ELSE (@ + 1) % 256,
              !.timer0A = [ulLoad |-> s.g_ulStartupPeriod, bEnabled |-> TRUE]]
    ELSE IF HasBit(s.g_ulState, STATE_FLAG_RUN)
    THEN TrapModulate(s, ulBEMFNextHall)
    ELSE s

\* the commutation timer; ulBEMFNextHall is the hall state the back-EMF
\* module computed last
Timer0AIntHandler(s, ulBEMFNextHall) ==
    IF s.g_sParameters.ucModulationType # "SENSORLESS" THEN s
    ELSE IF HasBit(s.g_ulState, STATE_FLAG_STARTUP)
    THEN LET s1 == TrapModulate(s, ucHallSequence[s.g_ucStartupHallIndex + 1])
             s2 == IF ~HasBit(s.g_ulState, STATE_FLAG_FORWARD)
                   THEN [s1 EXCEPT !.g_ucStartupHallIndex =
                                       IF ((@ - 1) % 256) > 5 THEN 5 ELSE (@ - 1) % 256]
                   ELSE [s1 EXCEPT !.g_ucStartupHallIndex =
                                       IF ((@ + 1) % 256) > 5 THEN 0 ELSE (@ + 1) % 256]
         IN  [s2 EXCEPT !.timer0A = [ulLoad |-> s.g_ulStartupPeriod, bEnabled |-> TRUE]]
    ELSE IF HasBit(s.g_ulState, STATE_FLAG_RUN)
    THEN TrapModulate(s, ulBEMFNextHall)
    ELSE s

\* the one-shot timer has counted down: the hardware clears the enable bit
\* and raises the interrupt
Timer0AExpiry(s, ulBEMFNextHall) ==
    Timer0AIntHandler([s EXCEPT !.timer0A.bEnabled = FALSE], ulBEMFNextHall)

\* ---------------------------------------------------------------------------
\* The millisecond tick (main.c).  The record in holds what the tick reads from
\* outside the core: sysfault (both system-fault pins high), temp
\* (g_sAmbientTemp), vbus (g_ulBusVoltage), current (g_sMotorCurrent), speed
\* (the rotor speed of the selected sensor), hall (a new g_ulHallRotorSpeed
\* written by the hall interrupt since the last tick, or -1 for none), pins
\* (the hall state on the pins), ub (the outcome of signed overflow), and
\* watchdog (the watchdog interrupt preempts the tick of a run state after the
\* tick has found the run flag in g_ulState and before the run-state code).
\* ---------------------------------------------------------------------------
\* fault injection: a precharge handler that keeps the integrator on the way
\* to the run state
MainPrechargeHandlerKeepsIntegrator(s, in) ==
    IF SubW(s.g_ulStateCount, 1) # 0
    THEN [s EXCEPT !.g_ulStateCount = SubW(@, 1)]
    ELSE IF s.g_sParameters.ucModulationType = "SENSORLESS"
    THEN [s EXCEPT !.g_ulStateCount = 0,
                   !.g_ulStartupState = 0,
                   !.g_ulState = IF s.g_ulState = STATE_PRECHARGE
                                 THEN STATE_STARTUP ELSE STATE_BACK_STARTUP]
    ELSE [(IF s.g_sParameters.ucModulationType = "TRAPEZOID"
           THEN GPIOBIntHandler(
                    PWMSetDutyCycle([s EXCEPT !.g_ulStateCount = 0,
                                              !.g_ulDutyCycle = 0], 0, 0, 0),
                    in.pins)
           ELSE PWMOutputOn(
                    PWMSetDutyCycle([s EXCEPT !.g_ulStateCount = 0,
                                              !.g_ulDutyCycle = 0], 0, 0, 0)))
              EXCEPT !.g_ulState = IF s.g_ulState = STATE_PRECHARGE
                                   THEN STATE_RUN ELSE STATE_BACK_RUN,
                     !.g_ulSpeed = 0,
                     !.g_ulAngle = 0]

MainPrechargeHandler(s, in) ==
    LET s0 == [s EXCEPT !.g_ulStateCount = SubW(@, 1)]
    IN  IF s0.g_ulStateCount # 0 THEN s0
        ELSE IF s0.g_sParameters.ucModulationType = "SENSORLESS"
        THEN [s0 EXCEPT !.g_ulStartupState = 0,
                        !.g_ulState = IF s0.g_ulState = STATE_PRECHARGE
                                      THEN STATE_STARTUP ELSE STATE_BACK_STARTUP]
        ELSE LET s1 == PWMSetDutyCycle([s0 EXCEPT !.g_ulDutyCycle = 0], 0, 0, 0)
                 s2 == IF s1.g_sParameters.ucModulationType = "TRAPEZOID"
                       THEN GPIOBIntHandler(s1, in.pins)
                       ELSE PWMOutputOn(s1)
             IN  [s2 EXCEPT !.g_ulState = IF s2.g_ulState = STATE_PRECHARGE
                                           THEN STATE_RUN ELSE STATE_BACK_RUN,
                            !.g_ulSpeed = 0,
                            !.g_lSpeedIntegrator = 0,
                            !.g_ulAngle = 0]

\* ((ulVoltage << 16) / g_ulBusVoltage) * 100
StartupDuty(ulVoltage, ulBusVoltage) ==
    MulW(UDiv(Shl(ulVoltage, 16), ulBusVoltage), 100)

\* SYSTEM_CLOCK / (((g_ulSpeed >> 14) * 3 * ucNumPoles) / 60)
StartupPeriod(s) ==
    UDiv(SYSTEM_CLOCK,
         UDiv(MulW(MulW(UShr(s.g_ulSpeed, 14), 3), s.g_sParameters.ucNumPoles), 60))

\* g_ulSpeed from its whole and fractional parts, 18.14 fixed point
SpeedFixed(ulWhole, ulFract) ==
    AddW(Shl(ulWhole, 14), UDiv(Shl(ulFract, 14), 1000))

\* fault injection: a handoff that leaves the acceleration rate of the
\* open-loop ramp in place
StartupHandoffKeepsRate(s) ==
    [s EXCEPT !.g_ulStartupState = 5,
              !.g_ulStateCount = STARTUP_SETTLE,
              !.g_lSpeedIntegrator =
                  UDiv(MulW(s.g_ulDutyCycle, 65536), s.g_sParameters.lFAdjI),
              !.g_ulState = IF HasBit(s.g_ulState, STATE_FLAG_FORWARD)
                            THEN STATE_RUN ELSE STATE_BACK_RUN]

\* the end of the settling time of the startup: seed the integrator from the
\* open-loop duty cycle, restore the ramp rates and enter the run state
StartupHandoff(s) ==
    [s EXCEPT !.g_ulStartupState = 5,
              !.g_ulStateCount = STARTUP_SETTLE,
              !.g_lSpeedIntegrator =
                  UDiv(MulW(s.g_ulDutyCycle, 65536), s.g_sParameters.lFAdjI),
              !.g_ulAccelRate = Shl(s.g_sParameters.usAccel, 16),
              !.g_ulDecelRate = Shl(s.g_sParameters.usDecel, 16),
              !.g_ulState = IF HasBit(s.g_ulState, STATE_FLAG_FORWARD)
                            THEN STATE_RUN ELSE STATE_BACK_RUN]

MainStartupHandler(s, in) ==
    LET p == s.g_sParameters
    IN  CASE s.g_ulStartupState = 0 ->
            LET Align(s1) ==
                    [TrapModulate(PWMSetDutyCycle(s1, 0, 0, 0), 5) EXCEPT
                         !.g_ulStateCount = p.usStartupCount,
                         !.g_ulStartupState = 1]
            IN  Align([s EXCEPT !.g_ucLocalDecayMode = p.FLAG_DECAY,
                                !.g_sParameters.FLAG_DECAY = "SLOW",
                                !.g_ulStartupDutyCycle = 0,
                                !.g_ulStartupDutyCycleRamp =
                                    UDiv(StartupDuty(p.ulSensorlessStartVoltage,
                                                     in.vbus),
                                         p.usStartupCount),
                                !.g_ucStartupHallIndex = 0,
                                !.g_ulDutyCycle = 0])
          [] s.g_ulStartupState = 1 ->
            LET Drive(s1) ==
                    [PWMSetDutyCycle(s1, s1.g_ulDutyCycle, s1.g_ulDutyCycle,
                                     s1.g_ulDutyCycle)
                         EXCEPT !.g_ulStartupState = 2]
                Hold(ulDuty) ==
                    Drive([s EXCEPT !.g_ulStartupDutyCycle = ulDuty,
                                    !.g_ulDutyCycle = UDiv(ulDuty, 100)])
            IN  Hold(StartupDuty(p.ulSensorlessStartVoltage, in.vbus))
          [] s.g_ulStartupState = 2 ->
            LET Commutate(s1) ==
                    Timer0AIntHandler([s1 EXCEPT !.g_ulStartupPeriod = StartupPeriod(s1),
                                                 !.g_ulStartupState = 3],
                                      in.pins)
                Ramp(ulStart, ulEnd) ==
                    Commutate(
                        [s EXCEPT !.g_ulSpeedWhole = p.ulSensorlessStartSpeed,
                                  !.g_ulSpeedFract = 0,
                                  !.g_ulSpeed = SpeedFixed(p.ulSensorlessStartSpeed, 0),
                                  !.g_ulAccelRate =
                                      UDiv(MulW(SubW(p.ulSensorlessEndSpeed,
                                                     p.ulSensorlessStartSpeed), 1000),
                                           p.usSensorlessRampTime),
                                  !.g_ulStartupDutyCycle = ulStart,
                                  !.g_ulStartupDutyCycleRamp =
                                      UDiv(SubW(ulEnd, ulStart),
                                           p.usSensorlessRampTime)])
            IN  Ramp(StartupDuty(p.ulSensorlessStartVoltage, in.vbus),
                     StartupDuty(p.ulSensorlessEndVoltage, in.vbus))
          [] s.g_ulStartupState = 3 ->
            IF UGt(s.g_ulSpeed, Shl(p.ulSensorlessEndSpeed, 14))
            THEN [s EXCEPT !.g_ulStartupState = 4,
                           !.g_ulStateCount = STARTUP_SETTLE]
            ELSE LET Period(s3) ==
                         [s3 EXCEPT !.g_ulStartupPeriod = StartupPeriod(s3)]
                     Drive(s2) ==
                         Period(PWMSetDutyCycle(s2, s2.g_ulDutyCycle, s2.g_ulDutyCycle,
                                                s2.g_ulDutyCycle))
                     Duty(s1) ==
                         Drive([s1 EXCEPT !.g_ulDutyCycle =
                                              UDiv(s1.g_ulStartupDutyCycle, 100)])
                     Speed(w1, f1) ==
                         Duty([s EXCEPT !.g_ulSpeedFract = f1,
                                        !.g_ulSpeedWhole = w1,
                                        !.g_ulSpeed = SpeedFixed(w1, f1),
                                        !.g_ulStartupDutyCycle =
                                            AddW(@, s.g_ulStartupDutyCycleRamp)])
                     Carry(f0, k) ==
                         Speed(AddW(s.g_ulSpeedWhole, k), SubW(f0, MulW(k, 1000)))
                     \* while(g_ulSpeedFract > 1000) { -= 1000; whole += 1 }
                     Fract(f0) ==
                         Carry(f0, IF f0 = 0 THEN 0 ELSE UDiv(SubW(f0, 1), 1000))
                 IN  Fract(AddW(s.g_ulSpeedFract, s.g_ulAccelRate))
          [] s.g_ulStartupState = 4 ->
            IF SubW(s.g_ulStateCount, 1) # 0
            THEN [s EXCEPT !.g_ulStateCount = SubW(@, 1)]
            ELSE StartupHandoff(s)
          [] OTHER ->
            MainSetFault(MainEmergencyStop([s EXCEPT !.g_ulStateCount = 0]),
                         FAULT_EMERGENCY_STOP)

\* fault injection: a check that latches when the count reaches the limit
DebounceCheckAtLimit(s, counter, bOut, lLimit, ulFaultFlag) ==
    LET s1 == [s EXCEPT !.errCnt[counter] = IF bOut THEN @ + 1 ELSE 0]
    IN  IF s1.errCnt[counter] >= lLimit
        THEN MainSetFault(MainEmergencyStop(s1), ulFaultFlag)
        ELSE s1

\* fault injection: a debounced check that restarts its count when it latches
DebounceCheckRestarts(s, counter, bOut, lLimit, ulFaultFlag) ==
    LET s1 == [s EXCEPT !.errCnt[counter] = IF bOut THEN @ + 1 ELSE 0]
    IN  IF s1.errCnt[counter] > lLimit
        THEN [MainSetFault(MainEmergencyStop(s1), ulFaultFlag) EXCEPT
                  !.errCnt[counter] = 0]
        ELSE s1

\* one debounced check of MainCheckFaults: count the out-of-range ticks, and
\* stop and latch once the count is greater than the limit
DebounceCheck(s, counter, bOut, lLimit, ulFaultFlag) ==
    LET s1 == [s EXCEPT !.errCnt[counter] = IF bOut THEN @ + 1 ELSE 0]
    IN  IF s1.errCnt[counter] > lLimit
        THEN MainSetFault(MainEmergencyStop(s1), ulFaultFlag)
        ELSE s1

MainCheckFaults(s, in) ==
    LET p == s.g_sParameters
        Current(s5) ==
            DebounceCheck(
                DebounceCheck(s5, "currentLowLimitCnt",
                              /\ p.sMinCurrent # 0
                              /\ in.current < p.sMinCurrent
                              /\ s5.g_ulState \in {STATE_RUN, STATE_REV},
                              MAIN_ERROR_CURRENT_LIMIT, FAULT_CURRENT_LOW),
                "currentHighLimitCnt",
                p.sMaxCurrent # 0 /\ in.current > p.sMaxCurrent,
                MAIN_ERROR_CURRENT_LIMIT, FAULT_CURRENT_HIGH)
        Ambient(s2) ==
            Current(
                DebounceCheck(
                    DebounceCheck(
                        DebounceCheck(s2, "temperatureErrorCnt",
                                      in.temp > p.ucMaxTemperature,
                                      MAIN_ERROR_DEFAULT_LIMIT, FAULT_TEMPERATURE_HIGH),
                        "lowBusVoltageCnt",
                        ULt(in.vbus, p.ulMinVBus),
                        MAIN_ERROR_VBUS_LIMIT, FAULT_VBUS_LOW),
                    "highBusVoltageCnt",
                    UGt(in.vbus, p.ulMaxVBus),
                    MAIN_ERROR_VBUS_LIMIT, FAULT_VBUS_HIGH))
        Latched(s1) ==
            Ambient(IF HasBit(s1.g_ulFaultFlags, FAULT_WATCHDOG)
                    THEN MainEmergencyStop(s1) ELSE s1)
    IN  Latched(IF in.sysfault THEN MainEmergencyStop(s) ELSE s)

\* fault injection: a windup term that takes the excess over the limit as it is
PIUWindupPositive(lOut, lDecayed) ==
    IF lOut > DUTY_CYCLE_MAX THEN lOut - DUTY_CYCLE_MAX ELSE lDecayed

\* the windup term SpeedControllerPIU leaves: lOut is the raw output (after the
\* clamp at zero), lDecayed the previous windup term times the decay constant
PIUWindup(lOut, lDecayed) ==
    IF lOut > DUTY_CYCLE_MAX THEN DUTY_CYCLE_MAX - lOut ELSE lDecayed

\* fault injection: an output that is not limited to the maximum duty cycle
PIUOutputUnlimited(lOut) == lOut

\* the duty cycle SpeedControllerPIU returns for the raw output lOut
PIUOutput(lOut) == IF lOut > DUTY_CYCLE_MAX THEN DUTY_CYCLE_MAX ELSE lOut

\* SpeedControllerPIU: the new state, with the returned duty cycle in g_ulDutyCycle
SpeedControllerPIU(s, ub) ==
    LET lError == SubW(s.g_sParameters.ulTargetSpeed, s.g_ulMeasuredSpeed)
        i0 == SAdd(s.g_lSpeedIntegrator, lError, ub)
        i1 == IF i0 > s.g_lSpeedIntegratorMax THEN s.g_lSpeedIntegratorMax ELSE i0
        i2 == IF i1 < 0 THEN 0 ELSE i1
        lTempP == MainLongMul(s.g_sParameters.lFAdjP, lError)
        lTempI == MainLongMul(s.g_lFAdjI, i2)
        we0 == MainLongMul(Ka, s.g_lSpeedIntegratorWE)
        bSetOffset == s.g_ucIntegralGainChanged # 0 /\ s.g_ucIntegralOffsetUpdated = 0
        off == IF bSetOffset
               THEN SSub(lTempI, MainLongMul(s.g_lFAdjIPrev, i2), ub)
               ELSE s.g_lSpeedIntegratorOffset
        lI1 == SSub(lTempI, off, ub)
        lI2 == SAdd(lI1, we0, ub)
        lSum == SAdd(lTempP, lI2, ub)
        lOut == IF lSum < 0 THEN 0 ELSE lSum
    IN  [s EXCEPT !.g_lSpeedIntegrator = i2,
                  !.g_lSpeedIntegratorOffset = off,
                  !.g_ucIntegralOffsetUpdated = IF bSetOffset THEN 1 ELSE @,
                  !.g_lFAdjIPrev = IF s.g_ucIntegralGainChanged = 0
                                   THEN s.g_lFAdjI ELSE @,
                  !.g_lSpeedIntegratorWE = PIUWindup(lOut, we0),
                  !.g_ulDutyCycle = PIUOutput(lOut)]

\* the commanded speed reached zero (or, sensorless, fell below the end speed)
SpeedZero(s) ==
    LET s1 == [s EXCEPT !.g_ulSpeed = 0, !.g_ulSpeedWhole = 0, !.g_ulSpeedFract = 0]
    IN  IF HasBit(s1.g_ulState, STATE_FLAG_STOPPING)
        THEN PWMOutputOff([UIRunLEDBlink(s1, 200, 25) EXCEPT
                               !.g_ulState = STATE_STOPPED,
                               !.g_ucMotorStatus = "STOP"])
        ELSE [s1 EXCEPT !.g_ulState = IF s1.g_ulState = STATE_REV
                                      THEN STATE_BACK_RUN ELSE STATE_RUN]

\* a speed handler that does not ramp: the commanded speed jumps to the target
MainSpeedHandlerNoRamp(s, ulTarget, in) ==
    IF ulTarget = s.g_ulSpeed THEN s
    ELSE [s EXCEPT !.g_ulSpeed = ulTarget,
                   !.g_ulSpeedWhole = UShr(ulTarget, 14),
                   !.g_ulSpeedFract = UShr((ulTarget % 16384) * 1000, 14),
                   !.g_ucMotorStatus = "RUN"]

MainSpeedHandler(s, ulTarget, in) ==
    LET p == s.g_sParameters
    IN  IF ulTarget = s.g_ulSpeed THEN s
        ELSE IF UGt(ulTarget, s.g_ulSpeed)
        THEN LET Set(ulRate, w1, f1, ulSpeed) ==
                     IF UGe(ulSpeed, ulTarget)
                     THEN [s EXCEPT !.g_ulAccelRate = ulRate,
                                    !.g_ulSpeed = ulTarget,
                                    !.g_ulSpeedWhole = UShr(ulTarget, 14),
                                    !.g_ulSpeedFract =
                                        UShr((ulTarget % 16384) * 1000, 14),
                                    !.g_ucMotorStatus = "RUN"]
                     ELSE [s EXCEPT !.g_ulAccelRate = ulRate,
                                    !.g_ulSpeed = ulSpeed,
                                    !.g_ulSpeedWhole = w1,
                                    !.g_ulSpeedFract = f1,
                                    !.g_ucMotorStatus = "ACCEL"]
                 Fixed(ulRate, w1, f1) == Set(ulRate, w1, f1, SpeedFixed(w1, f1))
                 Carry(ulRate, f0, k) ==
                     Fixed(ulRate, AddW(s.g_ulSpeedWhole, k), SubW(f0, MulW(k, 1000)))
                 \* while(g_ulSpeedFract >= 1000) { whole++; fract -= 1000 }
                 Fract(ulRate, f0) == Carry(ulRate, f0, UDiv(f0, 1000))
                 Rate(ulRate) ==
                     Fract(ulRate, AddW(s.g_ulSpeedFract, UShr(ulRate, 16)))
                 Limit(ulNewValue) ==
                     Rate(IF UGt(s.g_ulAccelRate, Shl(p.usAccel, 16))
                          THEN Shl(p.usAccel, 16)
                          ELSE IF in.current > p.sAccelCurrent
                                  /\ ULt(ulNewValue, s.g_ulAccelRate)
                          THEN ulNewValue
                          ELSE IF ULt(s.g_ulAccelRate, Shl(p.usAccel, 16))
                          THEN AddW(s.g_ulAccelRate, 15 * 65536)
                          ELSE s.g_ulAccelRate)
             IN  Limit(IF in.current >= p.sAccelCurrent + 200
                       THEN p.usAccel * 128
                       ELSE SMul(p.usAccel * 128,
                                 (p.sAccelCurrent + 200) - in.current, in.ub))
        ELSE LET Set(s1, w1, ulSpeed) ==
                     IF ulTarget # 0 /\ ULt(ulSpeed, ulTarget)
                     THEN [s1 EXCEPT !.g_ulSpeed = ulTarget,
                                     !.g_ulSpeedWhole = UShr(ulTarget, 14),
                                     !.g_ulSpeedFract =
                                         UShr((ulTarget % 16384) * 1000, 14),
                                     !.g_ucMotorStatus = "RUN"]
                     ELSE IF \/ UGt(ulSpeed, -16777216)
                             \/ ulSpeed = 0
                             \/ /\ p.ucModulationType = "SENSORLESS"
                                /\ ULt(w1, p.ulSensorlessEndSpeed)
                     THEN SpeedZero(s1)
                     ELSE [s1 EXCEPT !.g_ucMotorStatus = "DECEL"]
                 Fixed(ulRate, w1, f1, ulSpeed) ==
                     Set([s EXCEPT !.g_ulDecelRate = ulRate,
                                   !.g_ulSpeed = ulSpeed,
                                   !.g_ulSpeedWhole = w1,
                                   !.g_ulSpeedFract = f1],
                         w1, ulSpeed)
                 Borrow(ulRate, w1, f1) == Fixed(ulRate, w1, f1, SpeedFixed(w1, f1))
                 Carry(ulRate, f0, k) ==
                     Borrow(ulRate, SubW(s.g_ulSpeedWhole, k), AddW(f0, MulW(k, 1000)))
                 \* while(g_ulSpeedFract >= 1000) { whole--; fract += 1000 }:
                 \* the loop ends when the unsigned addition wraps below 1000
                 Fract(ulRate, f0) ==
                     Carry(ulRate, f0,
                           IF ULt(f0, 1000) THEN 0
                           ELSE UDiv(AddW(NegW(f0), 999), 1000))
                 Rate(ulRate) ==
                     Fract(ulRate, SubW(s.g_ulSpeedFract, UShr(ulRate, 16)))
                 Limit(ulNewValue) ==
                     Rate(IF UGt(s.g_ulDecelRate, Shl(p.usDecel, 16))
                          THEN Shl(p.usDecel, 16)
                          ELSE IF UGt(in.vbus, p.ulDecelV)
                                  /\ ULt(ulNewValue, s.g_ulDecelRate)
                          THEN ulNewValue
                          ELSE IF ULt(s.g_ulDecelRate, Shl(p.usDecel, 16))
                          THEN AddW(s.g_ulDecelRate, 15 * 65536)
                          ELSE s.g_ulDecelRate)
             IN  Limit(IF UGt(in.vbus, AddW(p.ulDecelV, 63))
                       THEN p.usDecel * 1024
                       ELSE MulW(p.usDecel * 1024,
                                 AddW(SubW(64, in.vbus), p.ulDecelV)))

\* the measured speed MainMillisecondTick selects
MeasureSpeed(s, in) ==
    LET p == s.g_sParameters
    IN  IF p.ucModulationType = "SENSORLESS" \/ p.FLAG_ENCODER = "PRESENT"
        THEN [s EXCEPT !.g_ulMeasuredSpeed = in.speed]
        ELSE IF p.FLAG_SENSOR_TYPE = "GPIO"
        THEN LET s0 == IF in.hall = -1 THEN s
                       ELSE [s EXCEPT !.g_ulHallRotorSpeed = in.hall]
                 c  == IF s0.g_ulMeasuredSpeed = s0.g_ulHallRotorSpeed
                       THEN (s0.cnt + 1) % 65536 ELSE 0
                 h  == IF c > 20 THEN 0 ELSE s0.g_ulHallRotorSpeed
             IN  [s0 EXCEPT !.cnt = c,
                            !.g_ulHallRotorSpeed = h,
                            !.g_ulMeasuredSpeed = h]
        ELSE [s EXCEPT !.g_ulMeasuredSpeed = in.speed]

\* the motor current is above the target current: reduce the duty cycle by the
\* overcurrent fraction instead of running the speed controller
CurrentLimit(s, in) ==
    IF s.sPreviousMotorCurrent = in.current THEN s
    ELSE LET t0 == in.current - s.g_sParameters.sTargetCurrent
             t1 == UDiv(MulW(t0, 65536), s.g_sParameters.sTargetCurrent)
             t2 == UDiv(MulW(t1, s.g_ulDutyCycle), 65536)
         IN  [s EXCEPT !.sPreviousMotorCurrent = in.current,
                       !.g_ulDutyCycle = SubW(s.g_ulDutyCycle, t2)]

\* the part of MainMillisecondTick that runs while the drive has the run flag
\* fault injection: a target that ignores the settling time of the
\* sensorless drive
TickTargetNoSettle(s) ==
    IF HasBit(s.g_ulState, STATE_FLAG_STOPPING) \/ HasBit(s.g_ulState, STATE_FLAG_REV)
    THEN 0 ELSE Shl(s.g_sParameters.ulTargetSpeed, 14)

\* ulTarget of a run-state tick that enters it in state s
TickTarget(s) ==
    IF s.g_sParameters.ucModulationType = "SENSORLESS" /\ s.g_ulStateCount # 0
    THEN s.g_ulSpeed
    ELSE IF HasBit(s.g_ulState, STATE_FLAG_STOPPING)
            \/ HasBit(s.g_ulState, STATE_FLAG_REV)
    THEN 0 ELSE Shl(s.g_sParameters.ulTargetSpeed, 14)

MainRunTick(s, in) ==
    LET p == s.g_sParameters
        bSettle == p.ucModulationType = "SENSORLESS" /\ s.g_ulStateCount # 0
        Drive(s5) ==
            IF p.ucModulationType # "SINE"
            THEN PWMSetDutyCycle(s5, s5.g_ulDutyCycle, s5.g_ulDutyCycle,
                                 s5.g_ulDutyCycle)
            ELSE s5
        Control(s4) ==
            Drive(IF p.sTargetCurrent # 0 /\ in.current > p.sTargetCurrent
                  THEN CurrentLimit(s4, in)
                  ELSE SpeedControllerPIU(s4, in.ub))
        Angle(s3) ==
            Control([s3 EXCEPT !.g_ulAngleDelta =
                                   MulW(Shl(UDiv(Shl(UDiv(s3.g_ulSpeed, 60), 9),
                                                 PWM_FREQUENCY), 9),
                                        p.ucNumPoles \div 2)])
        Speed(s2) == Angle(MainSpeedHandler(s2, TickTarget(s), in))
        Decay(s1) ==
            Speed(IF p.ucModulationType = "SENSORLESS" /\ s1.g_ulStateCount = 1
                  THEN [s1 EXCEPT !.g_sParameters.FLAG_DECAY = s1.g_ucLocalDecayMode]
                  ELSE s1)
    IN  Decay(IF bSettle THEN [s EXCEPT !.g_ulStateCount = SubW(@, 1)] ELSE s)

WatchdogIntHandler(s) ==
    IF HasBit(s.g_ulState, STATE_FLAG_RUN)
    THEN PWMOutputOff(MainSetFault(s, FAULT_WATCHDOG))
    ELSE s

MainMillisecondTick(s, in) ==
    LET Handle(s1) ==
            IF HasBit(s1.g_ulState, STATE_FLAG_PRECHARGE)
            THEN MainPrechargeHandler(s1, in)
            ELSE IF HasBit(s1.g_ulState, STATE_FLAG_STARTUP)
            THEN MainStartupHandler(s1, in)
            ELSE IF HasBit(s1.g_ulState, STATE_FLAG_RUN)
            THEN MainRunTick(IF in.watchdog THEN WatchdogIntHandler(s1) ELSE s1, in)
            ELSE s1
    IN  Handle(MeasureSpeed(MainCheckFaults(s, in), in))

\* the waveform update; ulPeriods is the number of PWM periods it catches up
MainWaveformTick(s, ulPeriods) ==
    IF s.g_ulState \in {STATE_STOPPED, STATE_PRECHARGE, STATE_BACK_PRECHARGE}
    THEN s
    ELSE LET d == MulW(s.g_ulAngleDelta, ulPeriods)
         IN  PWMSetDutyCycle(
                 [s EXCEPT !.g_ulAngle = IF HasBit(s.g_ulState, STATE_FLAG_FORWARD)
                                         THEN AddW(@, d) ELSE SubW(@, d)],
                 0, 0, 0)

\* ---------------------------------------------------------------------------
\* User interface entry points (ui.c)
\* ---------------------------------------------------------------------------
\* ucDirection: 0 forward, 1 backward
UIDirectionSet(s, ucDirection) ==
    MainSetDirection([s EXCEPT !.g_sParameters.FLAG_DIR =
                                   IF ucDirection = 0 THEN "FORWARD" ELSE "BACKWARD"],
                     ucDirection = 0)

UIEmergencyStop(s) == MainSetFault(MainEmergencyStop(s), FAULT_EMERGENCY_STOP)

\* a write of the integral gain parameter, followed by its update callback
UIFAdjI(s, lNewFAdjI, ub) ==
    MainUpdateFAdjI([s EXCEPT !.g_lFAdjI = lNewFAdjI], lNewFAdjI, ub)

\* the ADC sequence handler's watch on the motor current offset, which it
\* keeps while the drive is stopped
ADC0IntHandler(s, bOffsetInRange) ==
    IF MainIsRunning(s) = 0 /\ ~bOffsetInRange
    THEN MainSetFault(s, FAULT_CURRENT_OFFSET)
    ELSE s

\* the trigger-press branch of UICheckAndSetSpeed, which the caller takes when
\* the throttle is above zero and MainIsRunning() is 0: the integral gain is
\* reset, the registry cleared, the direction applied and the drive started
UITriggerPress(s) ==
    LET s1 == [s EXCEPT !.g_lFAdjI = s.g_sParameters.lFAdjI,
                        !.g_ucIntegralGainChanged = 0,
                        !.g_lSpeedIntegratorOffset = 0,
                        !.g_ucIntegralOffsetUpdated = 0]
        ucDirection == IF s.g_sParameters.FLAG_DIR = "FORWARD" THEN 0 ELSE 1
    IN  MainRun(UIDirectionSet(MainClearFaults(s1), ucDirection))

\* the phase-short check of UICheckAndSetSpeed once the short has been read
\* more than LIMIT_PHASE_SHORT_CNT times in a row: the fault is raised unless
\* the cutter is disabled
UIPhaseShort(s, bCutterEnabled) ==
    IF bCutterEnabled THEN MainSetFault(s, FAULT_MOTOR_SHORT) ELSE s

\* the end of initHandPiece: the hand piece did not answer (bAnswered false)
\* and the communication fault is raised, or it answered and a registry that
\* holds exactly the communication fault is cleared
initHandPiece(s, bAnswered) ==
    IF ~bAnswered THEN MainSetFault(s, FAULT_HP_COMM)
    ELSE IF s.g_ulFaultFlags = FAULT_HP_COMM THEN MainClearFaults(s)
    ELSE s

\* ---------------------------------------------------------------------------
\* Bounds of the explored environment
\* ---------------------------------------------------------------------------
\* sensor readings inside every monitored range
NominalTemp    == 25
NominalVBus    == 48000
NominalCurrent == 0

\* the nonzero target speed (RPM) the user interface writes is this much above
\* the speed the drive starts closed-loop control at
SpeedAbove == 100

\* the precharge time (ms) of the explored configurations
PrechargeTime == 3

\* the open-loop ramp of the explored sensorless configuration: its time (ms)
\* and the speed (RPM) it starts from
RampTime   == 1
StartSpeed == 100
EndSpeed   == 200

\* the number of commands and asynchronous events a behaviour holds
MaxCmds         == 2
MaxRegistryCmds == 3
MaxRampCmds     == 3
SlowAccel       == 700      \* usAccel of the slow ramp
SlowDecel       == 900      \* usDecel of the slow ramp
SlowTarget      == 3        \* ulTargetSpeed of the slow ramp, rpm
MaxLimitCmds    == 3
LimitAccel      == 200      \* usAccel of the rate-limited ramp
LimitDecel      == 100      \* usDecel of the rate-limited ramp
LimitTarget     == 2        \* ulTargetSpeed of the rate-limited ramp, rpm
MaxDebounceCmds == 2
MaxMonitorCmds  == 2
MaxOver         == 1        \* ticks a reading stays out of range past its limit
LowCurrent      == 100      \* sMinCurrent of the monitored drive, mA
HighCurrent     == 10000    \* sMaxCurrent of the monitored drive, mA
MaxGainCmds     == 3
\* the commands and asynchronous events of the runs that preempt the background loop
MaxPreemptCmds  == 3
\* the commands and asynchronous events of the runs of the speed controller
MaxPIUCmds      == 2
\* the target speed (RPM) of those runs, above UI_GAIN_SWITCH_SPEED
PIUTarget       == 12000
\* the proportional gain (16.16 fixed point) that saturates the controller
HighPGain       == 524288
\* the millisecond ticks of those runs that find the drive ramping up, counted
\* from the last command
MaxPIUTicks     == 8
\* the commands of the runs of the sensorless startup
MaxStartupCmds  == 3
CurrentTarget   == 100      \* sTargetCurrent of the current-limited drive, mA
LargeGain       == 70000    \* an integral gain above the default

Modulations    == {"TRAPEZOID", "SENSORLESS", "SINE"}
Halls          == {1, 5}
Faults         == {FAULT_VBUS_HIGH, FAULT_HP_A2D}
Warnings       == {WARN_HP_VOLTAGE_RANGE, WARN_HALL_SPEED_RANGE}

\* ---------------------------------------------------------------------------
\* Initial state
\* ---------------------------------------------------------------------------
\* g_sParameters as ui.c initializes it (the fields the core reads)
DefaultParameters ==
    [ ucNumPoles |-> 4, ucModulationType |-> "SENSORLESS", usAccel |-> 50000,
      usDecel |-> 50000, sMinCurrent |-> 0, sMaxCurrent |-> 15000,
      ucPrechargeTime |-> 3, ucMaxTemperature |-> 52, FLAG_DIR |-> "FORWARD",
      FLAG_ENCODER |-> "ABSENT", FLAG_SENSOR_TYPE |-> "GPIO", FLAG_DECAY |-> "FAST",
      ulMinVBus |-> 43200, ulMaxVBus |-> 52800, ulDecelV |-> 50000,
      lFAdjP |-> 40000, lFAdjI |-> 600, sAccelCurrent |-> 15000,
      usStartupCount |-> 10, usSensorlessRampTime |-> 100, sTargetCurrent |-> 0,
      ulSensorlessStartVoltage |-> 4500, ulSensorlessEndVoltage |-> 14500,
      ulSensorlessStartSpeed |-> 300, ulSensorlessEndSpeed |-> 3000,
      ulTargetSpeed |-> 0, lPAdjI |-> 2500 ]

\* the state main() leaves before the first interrupt, for a parameter block p,
\* ulCmds commands and asynchronous events to come, and the tick parity
\* ulTock (2: not kept)
InitFrom(p, ulCmds, ulTock) ==
    /\ g_ulState = STATE_STOPPED
    /\ g_ucMotorStatus = "STOP"
    /\ g_ulFaultFlags = 0
    /\ g_ulSpeed = 0
    /\ g_ulSpeedWhole = 0
    /\ g_ulSpeedFract = 0
    /\ g_ulDutyCycle = 0
    /\ g_ulAngle = 0
    /\ g_ulAngleDelta = 0
    /\ g_ulStateCount = 0
    /\ g_ulAccelRate = 0
    /\ g_ulDecelRate = 0
    /\ g_lSpeedIntegrator = 0
    /\ g_lSpeedIntegratorWE = 0
    /\ g_lSpeedIntegratorOffset = 0
    /\ g_lSpeedIntegratorMax = IF p.lFAdjI = 0 THEN 0 ELSE INTEGRATOR_MAX
    /\ g_ucIntegralOffsetUpdated = 0
    /\ g_ulMeasuredSpeed = 0
    /\ g_ulStartupState = 0
    /\ g_ucStartupHallIndex = 0
    /\ g_ulStartupPeriod = 0
    /\ timer0A = [ulLoad |-> -1, bEnabled |-> FALSE]
    /\ g_ulStartupDutyCycle = 0
    /\ g_ulStartupDutyCycleRamp = 0
    /\ g_ucLocalDecayMode = "SLOW"
    /\ errCnt = [c \in {"temperatureErrorCnt", "lowBusVoltageCnt", "highBusVoltageCnt",
                        "currentLowLimitCnt", "currentHighLimitCnt"} |-> 0]
    /\ sPreviousMotorCurrent = 0
    /\ g_sParameters = p
    /\ g_lFAdjI = p.lFAdjI
    /\ g_lFAdjIPrev = p.lFAdjI
    /\ g_ucIntegralGainChanged = 0
    /\ g_pusBlinkRate = [i \in {0, 1} |-> IF i = 0 THEN 200 ELSE 0]
    /\ g_pusBlinkPeriod = [i \in {0, 1} |-> IF i = 0 THEN 25 ELSE 0]
    /\ g_ulPWMDutyCycle = <<PWM_OFF_DUTY, PWM_OFF_DUTY, PWM_OFF_DUTY>>
    /\ g_ulPWMFlags = {}
    /\ pwmOutputs = {}
    /\ pwmApplied = <<PWM_OFF_DUTY, PWM_OFF_DUTY, PWM_OFF_DUTY>>
    /\ trapHall = 0
    /\ cnt = 0
    /\ g_ulHallRotorSpeed = 0
    /\ hTicks = 0
    /\ hCmds = 0
    /\ hLast = [op |-> "main", arg |-> 0, state |-> STATE_STOPPED, speed |-> 0]
    /\ hSeq = <<>>
    /\ hMax = ulCmds
    /\ hRamp = [start |-> 0, ticks |-> 0]
    /\ hTock = ulTock
    /\ pcMain = [at |-> "loop", arg |-> 0, taken |-> FALSE]

InitWith(p, ulCmds) == InitFrom(p, ulCmds, 2)

\* the parameter block of the explored configurations, for one modulation type
ParametersOf(m) ==
    [DefaultParameters EXCEPT !.ucModulationType = m,
                              !.ucPrechargeTime = PrechargeTime,
                              !.FLAG_ENCODER = "PRESENT",
                              !.usSensorlessRampTime = RampTime,
                              !.ulSensorlessStartSpeed = StartSpeed,
                              !.ulSensorlessEndSpeed = EndSpeed]

\* the target speeds of the explored configurations: zero, or a speed above the
\* one closed-loop control starts at (zero, or the sensorless end speed)
TargetSpeeds(m) == {0, SpeedAbove + (IF m = "SENSORLESS" THEN EndSpeed ELSE 0)}

Init ==
    \E m \in Modulations : \E v \in TargetSpeeds(m) :
        InitWith([ParametersOf(m) EXCEPT !.ulTargetSpeed = v], MaxCmds)

\* ---------------------------------------------------------------------------
\* Actions: one per entry point of the core
\* ---------------------------------------------------------------------------
\* the drive is in a run state, past the sensorless settling time, with the
\* commanded speed below the target speed
IsRun(ulState) == ulState \in {STATE_RUN, STATE_BACK_RUN}

Ramping(s) ==
    /\ IsRun(s.g_ulState)
    /\ ~(s.g_sParameters.ucModulationType = "SENSORLESS" /\ s.g_ulStateCount # 0)
    /\ ULt(s.g_ulSpeed, Shl(s.g_sParameters.ulTargetSpeed, 14))

\* a ramp that starts in state n
RampStart(n) == [start |-> (n.g_ulSpeedWhole * 1000) + n.g_ulSpeedFract, ticks |-> 0]

\* the next state is n, with the history variables brought up to date
Do(n) ==
    Commit([n EXCEPT !.hTicks = IF n.g_ulState = STATE_STOPPED THEN 0 ELSE @,
                     !.hRamp = IF IsRun(g_ulState) /\ IsRun(n.g_ulState)
                               THEN @ ELSE RampStart(n)])

\* the command or asynchronous event op(arg), whose handler leaves state n
Cmd(op, arg, n) ==
    /\ hCmds < hMax
    /\ Do([n EXCEPT !.hCmds = @ + 1,
                    !.hLast = [op |-> op, arg |-> arg, state |-> g_ulState,
                               speed |-> g_ulSpeed],
                    !.hRamp = RampStart(n)])

Run == Cmd("MainRun", 0, MainRun(St))

Stop == Cmd("MainStop", 0, MainStop(St))

DirectionSet == \E d \in {0, 1} : Cmd("UIDirectionSet", d, UIDirectionSet(St, d))

SetFaultOf(codes) ==
    \E c \in codes :
        Cmd("MainSetFault", c, [MainSetFault(St, c) EXCEPT !.hSeq = Append(@, c)])

SetFault == SetFaultOf({FAULT_VBUS_HIGH, WARN_HP_VOLTAGE_RANGE})

ClearFaults == Cmd("MainClearFaults", 0, [MainClearFaults(St) EXCEPT !.hSeq = <<>>])

\* the trigger is pressed while the drive is stopped
TriggerPress ==
    /\ MainIsRunning(St) = 0
    /\ Cmd("UICheckAndSetSpeed", 1, [UITriggerPress(St) EXCEPT !.hSeq = <<>>])

\* the trigger is pressed while the motor has not been started, and the phase
\* short has been read often enough
PhaseShort ==
    /\ MainIsRunning(St) = 0
    /\ \E bCutterEnabled \in BOOLEAN :
           Cmd("UIPhaseShort", IF bCutterEnabled THEN 1 ELSE 0,
               [UIPhaseShort(St, bCutterEnabled) EXCEPT
                    !.hSeq = IF bCutterEnabled THEN Append(@, FAULT_MOTOR_SHORT) ELSE @])

\* the hand piece is initialised, with or without an answer
HandPieceInit ==
    \E bAnswered \in BOOLEAN :
        Cmd("initHandPiece", IF bAnswered THEN 1 ELSE 0,
            [initHandPiece(St, bAnswered) EXCEPT
                 !.hSeq = IF ~bAnswered THEN Append(@, FAULT_HP_COMM)
                          ELSE IF g_ulFaultFlags = FAULT_HP_COMM THEN <<>> ELSE @])

EmergencyStop == Cmd("MainEmergencyStop", 0, MainEmergencyStop(St))

Watchdog ==
    Cmd("WatchdogIntHandler", 0,
        [WatchdogIntHandler(St) EXCEPT
             !.hSeq = IF HasBit(g_ulState, STATE_FLAG_RUN)
                      THEN Append(@, FAULT_WATCHDOG) ELSE @])

\* the commutation timer expires during or after the sensorless ramp
Timer0A ==
    /\ g_sParameters.ucModulationType = "SENSORLESS"
    /\ g_ulStartupState >= 3
    /\ \E h \in Halls : Cmd("Timer0AIntHandler", h, Timer0AExpiry(St, h))

\* a PWM period that does not complete a millisecond
PWMPeriod == Do(PWM0IntHandler(St, FALSE))

\* the waveform update interrupt, which PWM0IntHandler triggers for sine modulation
WaveformTick ==
    /\ g_sParameters.ucModulationType = "SINE"
    /\ Cmd("MainWaveformTick", 1, MainWaveformTick(St, 1))

\* a millisecond: the PWM interrupt that completes it, then the millisecond tick
Millisecond(s, in) == MainMillisecondTick(PWM0IntHandler(s, TRUE), in)

\* a millisecond with the inputs in; unless op is "tick" it counts as the
\* asynchronous event op
TickAs(op, in) ==
    /\ op # "tick" => hCmds < hMax
    /\ Do([Millisecond(St, in) EXCEPT
               !.hTicks = IF HasBit(g_ulState, STATE_FLAG_PRECHARGE)
                          THEN @ + 1 ELSE @,
               !.hCmds = IF op # "tick" THEN @ + 1 ELSE @,
               !.hRamp.ticks = IF Ramping(St) THEN @ + 1 ELSE @,
               !.hTock = IF @ = 2 THEN 2 ELSE 1 - @,
               !.hLast = IF op # "tick"
                         THEN [op |-> op, arg |-> 0, state |-> g_ulState,
                               speed |-> g_ulSpeed]
                         ELSE @])

TickWith(in) ==
    TickAs(IF in.watchdog THEN "WatchdogInTick"
           ELSE IF in.sysfault THEN "sysfault"
           ELSE IF in.current > g_sParameters.sAccelCurrent THEN "overcurrent"
           ELSE IF UGt(in.vbus, g_sParameters.ulDecelV) THEN "overvoltage"
           ELSE "tick",
           in)

\* what the drive environment feeds a tick in state s: every sensor in range;
\* the rotor standing still, or, once the drive has the run flag and the
\* integrator is loaded, turning at the target speed
InputsAt(s) ==
    [ sysfault : BOOLEAN, temp : {NominalTemp}, vbus : {NominalVBus},
      current : {NominalCurrent},
      speed : IF ~HasBit(s.g_ulState, STATE_FLAG_RUN) THEN {0}
              ELSE IF s.g_lSpeedIntegrator = 0
              THEN {0, s.g_sParameters.ulTargetSpeed}
              ELSE {s.g_sParameters.ulTargetSpeed},
      hall : {-1}, pins : Halls, ub : {"wrap"}, watchdog : {FALSE} ]

DriveInputs == InputsAt(St)

Tick == \E in \in DriveInputs : TickWith(in)

Next ==
    \/ Run
    \/ Stop
    \/ DirectionSet
    \/ SetFault
    \/ ClearFaults
    \/ EmergencyStop
    \/ Watchdog
    \/ Timer0A
    \/ WaveformTick
    \/ Tick

Spec == Init /\ [][Next]_vars

\* ---------------------------------------------------------------------------
\* The fault registry on its own: one configuration, and the commands that
\* write the registry or start the drive
\* ---------------------------------------------------------------------------
InitRegistry == InitWith(ParametersOf("TRAPEZOID"), MaxRegistryCmds)

NextRegistry ==
    \/ Run
    \/ SetFaultOf(Faults \cup Warnings)
    \/ ClearFaults
    \/ Watchdog
    \/ Tick

SpecRegistry == InitRegistry /\ [][NextRegistry]_vars

\* ---------------------------------------------------------------------------
\* The callers of MainClearFaults: the clear-fault parameter write, the
\* trigger press and the hand-piece initialisation, next to what sets faults
\* ---------------------------------------------------------------------------
NextClear ==
    \/ Run
    \/ SetFaultOf(Faults \cup Warnings)
    \/ ClearFaults
    \/ TriggerPress
    \/ PhaseShort
    \/ HandPieceInit
    \/ Watchdog
    \/ Tick

SpecClear == InitRegistry /\ [][NextClear]_vars

\* ---------------------------------------------------------------------------
\* The background loop preempted inside MainRun and MainSetFault: either call
\* is taken in two steps, and the interrupt handlers run between them
\* ---------------------------------------------------------------------------
Loop == [at |-> "loop", arg |-> 0, taken |-> FALSE]

\* the drive is configured for trapezoid modulation and a target speed above zero
InitPreempt ==
    InitWith([ParametersOf("TRAPEZOID") EXCEPT !.ulTargetSpeed = SpeedAbove],
             MaxPreemptCmds)

\* MainRun as far as its fault test, which precedes the masking of the
\* millisecond interrupt
RunTest ==
    /\ pcMain.at = "loop"
    /\ Cmd("MainRun", 0,
           IF MainIsFaulted(St) THEN St ELSE [St EXCEPT !.pcMain.at = "MainRun"])

\* the masked section of MainRun
RunMasked ==
    /\ pcMain.at = "MainRun"
    /\ Do([MainRunMasked(St) EXCEPT !.pcMain = Loop])

\* MainSetFault, called by the background loop, as far as its test
SetFaultTest ==
    /\ pcMain.at = "loop"
    /\ \E c \in Faults \cup Warnings :
           Cmd("MainSetFault", c,
               [St EXCEPT !.pcMain = [at |-> "MainSetFault", arg |-> c,
                                      taken |-> MainSetFaultTest(g_ulFaultFlags, c)],
                          !.hSeq = Append(@, c)])

\* MainSetFault from its registry write on
SetFaultWrite ==
    /\ pcMain.at = "MainSetFault"
    /\ Do([MainSetFaultWrite(St, pcMain.arg, pcMain.taken) EXCEPT !.pcMain = Loop])

\* the ADC sequence interrupt finds the current offset out of range
OffsetFault ==
    Cmd("ADC0IntHandler", FAULT_CURRENT_OFFSET,
        [ADC0IntHandler(St, FALSE) EXCEPT
             !.hSeq = IF MainIsRunning(St) = 0
                      THEN Append(@, FAULT_CURRENT_OFFSET) ELSE @])

\* the background loop's MainEmergencyStop as far as one or two of the phase
\* values of PWMOutputOff
EmergencyStopBegin ==
    /\ pcMain.at = "loop"
    /\ \E ulWritten \in {1, 2} :
           Cmd("MainEmergencyStop", ulWritten,
               [MainEmergencyStopBegin(St, ulWritten) EXCEPT
                    !.pcMain.at = "PWMOutputOff"])

\* the rest of that MainEmergencyStop
EmergencyStopEnd ==
    /\ pcMain.at = "PWMOutputOff"
    /\ Do([MainEmergencyStopEnd(St) EXCEPT !.pcMain = Loop])

\* the readings of a tick of this drive: those of the drive environment, and in
\* a run state the same with the watchdog interrupt preempting the tick
PreemptInputs ==
    DriveInputs \cup
        {[in EXCEPT !.watchdog = TRUE] :
             in \in {i \in DriveInputs : /\ ~i.sysfault
                                         /\ HasBit(g_ulState, STATE_FLAG_RUN)}}

\* the millisecond tick, which MainEmergencyStop masks
PreemptTick ==
    /\ pcMain.at # "PWMOutputOff"
    /\ \E in \in PreemptInputs : TickWith(in)

NextPreempt ==
    \/ RunTest
    \/ RunMasked
    \/ SetFaultTest
    \/ SetFaultWrite
    \/ OffsetFault
    \/ EmergencyStopBegin
    \/ EmergencyStopEnd
    \/ PWMPeriod
    \/ Watchdog
    \/ PreemptTick

SpecPreempt == InitPreempt /\ [][NextPreempt]_vars

\* ---------------------------------------------------------------------------
\* The speed ramp on its own: no fault is raised, the motor current stays at or
\* below the acceleration current limit and the bus voltage below the
\* deceleration voltage limit.  Three configurations: the default acceleration
\* with a target of ScenarioTarget rpm and one command, and a slow ramp and a
\* sensorless drive with MaxRampCmds commands each
\* ---------------------------------------------------------------------------
ScenarioTarget == [rpm |-> 12000]

RampCases ==
    { [p |-> [ParametersOf("TRAPEZOID") EXCEPT !.ulTargetSpeed = ScenarioTarget.rpm],
       ulCmds |-> 1],
      [p |-> [ParametersOf("TRAPEZOID") EXCEPT !.usAccel = SlowAccel,
                                               !.usDecel = SlowDecel,
                                               !.ulTargetSpeed = SlowTarget],
       ulCmds |-> MaxRampCmds],
      [p |-> [ParametersOf("SENSORLESS") EXCEPT
                  !.ulTargetSpeed = EndSpeed + (2 * SpeedAbove)],
       ulCmds |-> MaxRampCmds] }

InitRamp == \E c \in RampCases : InitWith(c.p, c.ulCmds)

RampInputs ==
    { [in EXCEPT !.current = c] :
          in \in {i \in DriveInputs : ~i.sysfault},
          c \in {NominalCurrent, g_sParameters.sAccelCurrent} }

RampTick == \E in \in RampInputs : TickWith(in)

NextRamp ==
    \/ Run
    \/ Stop
    \/ DirectionSet
    \/ Timer0A
    \/ RampTick

SpecRamp == InitRamp /\ [][NextRamp]_vars

\* The same drive with the slow ramp and the sensorless configuration only,
\* keeping the parity of the ticks.  The millisecond interrupt is periodic:
\* ticks, the only steps that change the parity, are taken again and again
InitStop ==
    \E c \in {r \in RampCases : r.ulCmds = MaxRampCmds} : InitFrom(c.p, c.ulCmds, 0)

SpecStop == InitStop /\ [][NextRamp]_vars /\ WF_hTock(hTock' = 1 - hTock)

\* ---------------------------------------------------------------------------
\* The rate limiting of the speed ramp: a slow ramp whose acceleration is cut
\* back by ticks with the motor current above sAccelCurrent and whose
\* deceleration is cut back by ticks with the bus voltage above ulDecelV.  The
\* high current fault is disabled (sMaxCurrent = 0)
\* ---------------------------------------------------------------------------
InitLimit ==
    InitWith([ParametersOf("TRAPEZOID") EXCEPT !.usAccel = LimitAccel,
                                               !.usDecel = LimitDecel,
                                               !.ulTargetSpeed = LimitTarget,
                                               !.sMaxCurrent = 0],
             MaxLimitCmds)

\* the inputs of a tick with every sensor in range and, once the drive has the
\* run flag, the rotor at the target speed
QuietInputs ==
    {in \in DriveInputs : /\ ~in.sysfault
                          /\ in.pins = 1
                          /\ in.speed = IF HasBit(g_ulState, STATE_FLAG_RUN)
                                        THEN g_sParameters.ulTargetSpeed ELSE 0}

\* the inputs of a tick with the motor current above sAccelCurrent: just
\* above, or by 200 mA
OverCurrentInputs ==
    { [in EXCEPT !.current = g_sParameters.sAccelCurrent + c] :
          in \in QuietInputs, c \in {1, 200} }

\* the inputs of a tick with the bus voltage above ulDecelV: just above, or
\* by 64 mV
OverVoltageInputs ==
    { [in EXCEPT !.vbus = g_sParameters.ulDecelV + u] :
          in \in QuietInputs, u \in {1, 64} }

\* a tick of the rate-limited ramp: quiet, or one of the two limit events
LimitTick ==
    \E in \in QuietInputs \cup OverCurrentInputs \cup OverVoltageInputs :
        TickWith(in)

NextLimit ==
    \/ Run
    \/ Stop
    \/ DirectionSet
    \/ LimitTick

SpecLimit == InitLimit /\ [][NextLimit]_vars

\* ---------------------------------------------------------------------------
\* The fault monitor: a drive with both current limits configured and a zero
\* target speed, fed readings of which at most one is out of range
\* ---------------------------------------------------------------------------
InitDebounce ==
    InitWith([ParametersOf("TRAPEZOID") EXCEPT !.sMinCurrent = LowCurrent,
                                               !.sMaxCurrent = HighCurrent],
             MaxDebounceCmds)

\* the counters of MainCheckFaults, with the limit and the fault of each
Counters == {"temperatureErrorCnt", "lowBusVoltageCnt", "highBusVoltageCnt",
             "currentLowLimitCnt", "currentHighLimitCnt"}

DebounceLimit(c) ==
    IF c = "temperatureErrorCnt" THEN MAIN_ERROR_DEFAULT_LIMIT
    ELSE IF c \in {"lowBusVoltageCnt", "highBusVoltageCnt"} THEN MAIN_ERROR_VBUS_LIMIT
    ELSE MAIN_ERROR_CURRENT_LIMIT

DebounceFault(c) ==
    CASE c = "temperatureErrorCnt" -> FAULT_TEMPERATURE_HIGH
      [] c = "lowBusVoltageCnt"    -> FAULT_VBUS_LOW
      [] c = "highBusVoltageCnt"   -> FAULT_VBUS_HIGH
      [] c = "currentLowLimitCnt"  -> FAULT_CURRENT_LOW
      [] c = "currentHighLimitCnt" -> FAULT_CURRENT_HIGH

\* the readings of a tick with every quantity in range
InRange ==
    [ sysfault |-> FALSE, temp |-> NominalTemp, vbus |-> NominalVBus,
      current |-> g_sParameters.sMinCurrent, speed |-> 0, hall |-> -1, pins |-> 1,
      ub |-> "wrap", watchdog |-> FALSE ]

\* the readings of a tick with the quantity of counter c just out of range
OutOfRange(c) ==
    CASE c = "temperatureErrorCnt" ->
           [InRange EXCEPT !.temp = g_sParameters.ucMaxTemperature + 1]
      [] c = "lowBusVoltageCnt" ->
           [InRange EXCEPT !.vbus = g_sParameters.ulMinVBus - 1]
      [] c = "highBusVoltageCnt" ->
           [InRange EXCEPT !.vbus = g_sParameters.ulMaxVBus + 1]
      [] c = "currentLowLimitCnt" ->
           [InRange EXCEPT !.current = g_sParameters.sMinCurrent - 1]
      [] c = "currentHighLimitCnt" ->
           [InRange EXCEPT !.current = g_sParameters.sMaxCurrent + 1]

\* one quantity stays out of range at a time, until its fault is latched;
\* after that the readings are in range
DebounceInputs ==
    {InRange} \cup
    { OutOfRange(c) : c \in { d \in Counters :
                                 /\ g_ulFaultFlags = 0
                                 /\ errCnt[d] <= DebounceLimit(d)
                                 /\ \A e \in Counters \ {d} : errCnt[e] = 0 } }

DebounceTick == \E in \in DebounceInputs : TickAs("tick", in)

NextDebounce ==
    \/ Run
    \/ DebounceTick

SpecDebounce == InitDebounce /\ [][NextDebounce]_vars

\* The same drive in either direction, with the registry cleared and the
\* direction set from outside, and with a reading that may stay out of range
\* after its fault has latched, for up to MaxOver ticks past the limit
InitMonitor ==
    \E d \in {"FORWARD", "BACKWARD"} :
        InitWith([ParametersOf("TRAPEZOID") EXCEPT !.sMinCurrent = LowCurrent,
                                                   !.sMaxCurrent = HighCurrent,
                                                   !.FLAG_DIR = d],
                 MaxMonitorCmds)

\* the readings that go out of range: the two currents and the high bus voltage
MonitorCounters == {"highBusVoltageCnt", "currentLowLimitCnt", "currentHighLimitCnt"}

MonitorInputs ==
    {InRange} \cup
    { OutOfRange(c) : c \in { d \in MonitorCounters :
                                 /\ errCnt[d] <= DebounceLimit(d) + MaxOver
                                 /\ \A e \in Counters \ {d} : errCnt[e] = 0 } }

MonitorTick == \E in \in MonitorInputs : TickAs("tick", in)

NextMonitor ==
    \/ Run
    \/ DirectionSet
    \/ ClearFaults
    \/ MonitorTick

SpecMonitor == InitMonitor /\ [][NextMonitor]_vars

\* ---------------------------------------------------------------------------
\* The speed controller: a drive without or with a target current, whose
\* integral gain is written while it runs
\* ---------------------------------------------------------------------------
InitGain ==
    \E sLimit \in {0, CurrentTarget} :
        InitWith([ParametersOf("TRAPEZOID") EXCEPT !.ulTargetSpeed = SpeedAbove,
                                                   !.sTargetCurrent = sLimit],
                 MaxGainCmds)

\* values written to the integral gain (PARAM_SPEED_I takes any long)
Gains == {-1, 0, 1, LargeGain}

GainSet ==
    \E g \in Gains : \E ub \in UBOutcomes : Cmd("UIFAdjI", g, UIFAdjI(St, g, ub))

\* the readings of a tick of this drive: every monitored quantity in range,
\* the motor current nominal or, with a target current and until the duty
\* cycle has left its range, at one and a half times or two and a half times
\* the target
GainInputs ==
    { [in EXCEPT !.current = c] :
          in \in {i \in DriveInputs : ~i.sysfault /\ i.pins = 1},
          c \in IF \/ g_sParameters.sTargetCurrent = 0
                   \/ UGt(g_ulDutyCycle, DUTY_CYCLE_MAX)
                THEN {NominalCurrent}
                ELSE {NominalCurrent,
                      g_sParameters.sTargetCurrent + (g_sParameters.sTargetCurrent \div 2),
                      (2 * g_sParameters.sTargetCurrent)
                          + (g_sParameters.sTargetCurrent \div 2)} }

GainTick == \E in \in GainInputs : TickAs("tick", in)

NextGain ==
    \/ Run
    \/ GainSet
    \/ GainTick

SpecGain == InitGain /\ [][NextGain]_vars

\* ---------------------------------------------------------------------------
\* The speed controller at a target speed above the gain switch speed, with the
\* default or a high proportional gain; the background loop switches the
\* integral gain in two writes
\* ---------------------------------------------------------------------------
UI_GAIN_SWITCH_SPEED == 3600

InitPIU ==
    \E lP \in {DefaultParameters.lFAdjP, HighPGain} :
        InitWith([ParametersOf("TRAPEZOID") EXCEPT !.ulTargetSpeed = PIUTarget,
                                                   !.lFAdjP = lP],
                 MaxPIUCmds)

\* UICheckAndSetSpeed above the switch speed: the write of the second gain
GainSwitchWrite ==
    /\ pcMain.at = "loop"
    /\ UGt(g_sParameters.ulTargetSpeed, UI_GAIN_SWITCH_SPEED)
    /\ g_ucIntegralGainChanged = 0
    /\ Cmd("UICheckAndSetSpeed", 2,
           [St EXCEPT !.g_lFAdjI = g_sParameters.lPAdjI,
                      !.pcMain.at = "GainSwitch"])

\* the write of the flag that follows it
GainSwitchFlag ==
    /\ pcMain.at = "GainSwitch"
    /\ Do([St EXCEPT !.g_ucIntegralGainChanged = 1, !.pcMain = Loop])

\* a millisecond tick with no system error signalled
PIUTick ==
    /\ hRamp.ticks < MaxPIUTicks
    /\ \E in \in {i \in DriveInputs : ~i.sysfault} : TickWith(in)

NextPIU ==
    \/ Run
    \/ GainSwitchWrite
    \/ GainSwitchFlag
    \/ PIUTick

SpecPIU == InitPIU /\ [][NextPIU]_vars

\* ---------------------------------------------------------------------------
\* The sensorless startup on its own: a drive of either direction with the
\* open-loop ramp of the explored configuration, or a forward drive with a ramp
\* whose end speed and voltage are its start speed and voltage.  The
\* commutation timer interrupts when the one-shot timer the firmware armed has
\* counted down; the millisecond interrupt is periodic
\* ---------------------------------------------------------------------------
StartupCases ==
    { [ParametersOf("SENSORLESS") EXCEPT !.ulTargetSpeed = EndSpeed + SpeedAbove,
                                         !.FLAG_DIR = d] :
          d \in {"FORWARD", "BACKWARD"} }
    \cup
    { [ParametersOf("SENSORLESS") EXCEPT
           !.ulTargetSpeed = EndSpeed + SpeedAbove,
           !.ulSensorlessEndSpeed = StartSpeed,
           !.ulSensorlessEndVoltage = DefaultParameters.ulSensorlessStartVoltage] }

InitStartup == \E p \in StartupCases : InitFrom(p, MaxStartupCmds, 0)

\* the commutation timer expires
CommutationTimer ==
    /\ timer0A.bEnabled
    /\ Do(Timer0AExpiry(St, 1))

StartupInputs == {in \in DriveInputs : ~in.sysfault /\ in.pins = 1}

SensorlessTick == \E in \in StartupInputs : TickWith(in)

NextStartup ==
    \/ Run
    \/ Stop
    \/ EmergencyStop
    \/ CommutationTimer
    \/ SensorlessTick

SpecStartup ==
    InitStartup /\ [][NextStartup]_vars /\ WF_hTock(hTock' = 1 - hTock)

\* ---------------------------------------------------------------------------
\* Properties of the drive state machine and the fault registry
\* ---------------------------------------------------------------------------
\* the single-bit codes of the fault half and of the warning half of the registry
FaultCodes == {2^k : k \in 0..15}

WarnCodes == {2^k : k \in (18..20) \cup (24..30)} \cup {MinInt}

LegalStates ==
    {STATE_STOPPED, STATE_PRECHARGE, STATE_STARTUP, STATE_RUN, STATE_STOPPING,
     STATE_REV, STATE_BACK_PRECHARGE, STATE_BACK_STARTUP, STATE_BACK_RUN,
     STATE_BACK_STOPPING, STATE_BACK_REV}

\* C1: whenever a fault bit (low 16 bits of g_ulFaultFlags) is latched the drive
\* state is STATE_STOPPED, and MainRun called then changes nothing, so no
\* sequence of commands and ticks leaves stopped before MainClearFaults.
C1_FaultedIsStopped ==
    MainIsFaulted(St) => (g_ulState = STATE_STOPPED /\ MainRun(St) = St)

\* MainRun was the last command, it found a fault latched, and the drive is
\* still stopped with the fault latched
C1_Witness ==
    /\ hLast.op = "MainRun"
    /\ hLast.state = STATE_STOPPED
    /\ MainIsFaulted(St)
    /\ g_ulState = STATE_STOPPED
    /\ hSeq # <<>>

\* what C2 requires of a state n after the fault code c was raised
FaultStopped(n, c) ==
    /\ n.g_ulState = STATE_STOPPED
    /\ n.pwmOutputs = {}
    /\ n.g_ulSpeed = 0 /\ n.g_ulSpeedWhole = 0 /\ n.g_ulSpeedFract = 0
    /\ n.g_ulFaultFlags = c
    /\ n.g_pusBlinkRate[1] = 20 /\ n.g_pusBlinkPeriod[1] = 10

\* C2: MainSetFault of any fault code, called while the drive has the run flag
\* and no fault is latched, leaves the drive stopped with the outputs disabled,
\* the commanded speed 0, the registry equal to the code and the (20,10) blink
\* armed, at the end of the call and still at the end of the next millisecond.
C2_FaultStopsRunning ==
    (HasBit(g_ulState, STATE_FLAG_RUN) /\ ~MainIsFaulted(St)) =>
        \A c \in FaultCodes :
            LET n == MainSetFault(St, c)
            IN  /\ FaultStopped(n, c)
                /\ \A in \in InputsAt(n) : FaultStopped(Millisecond(n, in), c)

\* MainSetFault(FAULT_VBUS_HIGH) was the last command, it found the drive
\* running forward at speed, and the drive is stopped holding that code
C2_Witness ==
    /\ hLast = [op |-> "MainSetFault", arg |-> FAULT_VBUS_HIGH,
                state |-> STATE_RUN, speed |-> hLast.speed]
    /\ hLast.speed # 0
    /\ hSeq = <<FAULT_VBUS_HIGH>>
    /\ FaultStopped(St, FAULT_VBUS_HIGH)

\* C3: from any drive state MainEmergencyStop leaves the state stopped, the
\* motor status stop, the outputs off, the duty cycle, the commanded speed (in
\* its three forms), the angle, the angle delta and the integrator 0, and the
\* acceleration and deceleration rates at their parameter values; a second call
\* right after changes nothing.
C3_EmergencyStop ==
    LET n == MainEmergencyStop(St)
    IN  /\ n.g_ulState = STATE_STOPPED
        /\ n.g_ucMotorStatus = "STOP"
        /\ n.pwmOutputs = {}
        /\ n.g_ulDutyCycle = 0
        /\ n.g_ulSpeed = 0 /\ n.g_ulSpeedWhole = 0 /\ n.g_ulSpeedFract = 0
        /\ n.g_ulAngle = 0 /\ n.g_ulAngleDelta = 0
        /\ n.g_lSpeedIntegrator = 0
        /\ n.g_ulAccelRate = Shl(g_sParameters.usAccel, 16)
        /\ n.g_ulDecelRate = Shl(g_sParameters.usDecel, 16)
        /\ MainEmergencyStop(n) = n

\* MainEmergencyStop was the last command, it found the drive running at
\* speed, and the drive is stopped with the integrator empty
C3_Witness ==
    /\ hLast.op = "MainEmergencyStop"
    /\ HasBit(hLast.state, STATE_FLAG_RUN)
    /\ hLast.speed # 0
    /\ g_ulState = STATE_STOPPED
    /\ g_ulSpeed = 0
    /\ g_lSpeedIntegrator = 0

\* the registry after the codes of seq were raised one after another
RECURSIVE RaiseAll(_, _)
RaiseAll(ulFlags, seq) ==
    IF seq = <<>> THEN ulFlags
    ELSE RaiseAll(FaultRegistry(ulFlags, Head(seq)), Tail(seq))

\* the fault codes among the codes of seq, in order
FaultsOf(seq) == SelectSeq(seq, LAMBDA c : c \in FaultCodes)

\* C4: a fault code overwrites a pending warning, a warning never overwrites a
\* pending fault, and once a fault is latched every later code is dropped: the
\* registry holds the first fault code raised since the last clear, and holds
\* no fault if none was raised; [W1, F1, W2] ends with F1 and [F1, F2] with F1.
C4_FaultPrecedence ==
    /\ \A c \in FaultCodes \cup WarnCodes :
           LET r == FaultRegistry(g_ulFaultFlags, c)
           IN  /\ MainIsFaulted(St) => r = g_ulFaultFlags
               /\ (g_ulFaultFlags \in WarnCodes /\ c \in FaultCodes) => r = c
               /\ g_ulFaultFlags = 0 => r = c
    /\ \A c \in Faults \cup Warnings :
           MainSetFault(St, c).g_ulFaultFlags = FaultRegistry(g_ulFaultFlags, c)
    /\ IF FaultsOf(hSeq) # <<>>
       THEN g_ulFaultFlags = Head(FaultsOf(hSeq))
       ELSE ~MainIsFaulted(St)
    /\ \A f1, f2 \in Faults : \A w1, w2 \in Warnings :
           LET ulCleared == MainClearFaults(St).g_ulFaultFlags
           IN  /\ RaiseAll(ulCleared, <<w1, f1, w2>>) = f1
               /\ RaiseAll(ulCleared, <<f1, f2>>) = f1

\* a warning, a fault and another warning were raised in that order since the
\* last clear, and the registry holds the fault
C4_Witness ==
    /\ hSeq = <<WARN_HP_VOLTAGE_RANGE, FAULT_VBUS_HIGH, WARN_HALL_SPEED_RANGE>>
    /\ g_ulFaultFlags = FAULT_VBUS_HIGH

\* the state precharge leaves for: startup for sensorless modulation, running
\* for the other modulation types, in the direction of the precharge state
AfterPrecharge(s) ==
    (IF s.g_sParameters.ucModulationType = "SENSORLESS"
     THEN STATE_FLAG_STARTUP ELSE STATE_FLAG_RUN)
    + (IF HasBit(s.g_ulState, STATE_FLAG_FORWARD)
       THEN STATE_FLAG_FORWARD ELSE STATE_FLAG_BACKWARD)

\* the run sequence with a precharge of ulTicks millisecond ticks: MainRun from
\* stopped with no fault latched gives the precharge state of the configured
\* direction; a tick in precharge stays there, or stops, or, as the last of the
\* ulTicks, moves on to AfterPrecharge; past precharge the drive has spent
\* exactly ulTicks ticks there
RunSequence(ulTicks) ==
    /\ (g_ulState = STATE_STOPPED /\ ~MainIsFaulted(St)) =>
           MainRun(St).g_ulState =
               STATE_FLAG_PRECHARGE + (IF g_sParameters.FLAG_DIR = "FORWARD"
                                       THEN STATE_FLAG_FORWARD
                                       ELSE STATE_FLAG_BACKWARD)
    /\ HasBit(g_ulState, STATE_FLAG_PRECHARGE) =>
           /\ hTicks < ulTicks
           /\ \A in \in InputsAt(St) :
                  LET n == Millisecond(St, in).g_ulState
                  IN  \/ n = STATE_STOPPED
                      \/ hTicks + 1 < ulTicks /\ n = g_ulState
                      \/ hTicks + 1 = ulTicks /\ n = AfterPrecharge(St)
    /\ (HasBit(g_ulState, STATE_FLAG_STARTUP) \/ HasBit(g_ulState, STATE_FLAG_RUN)) =>
           hTicks = ulTicks

\* C6, as the code has it: MainRun from stopped with no fault latched moves the
\* drive to the precharge state of the configured direction, the drive stays
\* in precharge for exactly ucPrechargeTime + 6 millisecond ticks, and the tick
\* that takes the countdown to zero moves it to startup (sensorless) or to
\* running (other modulation types) in the same direction.
C6_PrechargeLasts == RunSequence(g_sParameters.ucPrechargeTime + 6)

\* the drive has just left a forward precharge for startup
C6_Witness ==
    /\ hLast.op = "MainRun"
    /\ g_ulState = STATE_STARTUP
    /\ g_ulStartupState = 0
    /\ hTicks = g_sParameters.ucPrechargeTime + 6

\* C6 as stated: the drive stays in precharge for exactly ucPrechargeTime
\* millisecond ticks
C6_AsStated == RunSequence(g_sParameters.ucPrechargeTime)

\* C7: g_ulState is always one of the eleven legal values: at most one of the
\* precharge, startup and run flags is set, and the stopping and reversing
\* flags are set only together with the run flag and never both.
C7_LegalState ==
    /\ g_ulState \in LegalStates
    /\ Cardinality({f \in {STATE_FLAG_PRECHARGE, STATE_FLAG_STARTUP, STATE_FLAG_RUN} :
                        HasBit(g_ulState, f)}) <= 1
    /\ HasBit(g_ulState, STATE_FLAG_STOPPING) => HasBit(g_ulState, STATE_FLAG_RUN)
    /\ HasBit(g_ulState, STATE_FLAG_REV) => HasBit(g_ulState, STATE_FLAG_RUN)
    /\ ~(HasBit(g_ulState, STATE_FLAG_STOPPING) /\ HasBit(g_ulState, STATE_FLAG_REV))

\* the drive is reversing from backward rotation after a direction command
C7_Witness ==
    /\ g_ulState = STATE_REV
    /\ hLast.op = "UIDirectionSet"
    /\ hLast.state = STATE_RUN

\* the target speed in the fixed-point format of g_ulSpeed
TargetFixed == Shl(g_sParameters.ulTargetSpeed, 14)

\* the ticks a ramp from hRamp.start to the target takes at usAccel / 1000 rpm
\* a tick, rounded up
RampTicks ==
    (((g_sParameters.ulTargetSpeed * 1000) - hRamp.start) + (g_sParameters.usAccel - 1))
        \div g_sParameters.usAccel

\* a millisecond tick that finds the drive in a run state and leaves it there
RunTick ==
    /\ IsRun(g_ulState)
    /\ g_ulState' = g_ulState
    /\ hCmds' = hCmds

RampBound ==
    (IsRun(g_ulState) /\ ULe(g_ulSpeed, TargetFixed)) =>
        /\ hRamp.ticks <= RampTicks
        /\ hRamp.ticks = RampTicks => g_ulSpeed = TargetFixed
        /\ (g_sParameters.ulTargetSpeed = ScenarioTarget.rpm /\ hRamp.start = 0) =>
               (g_ulSpeed = TargetFixed <=> hRamp.ticks = 240)

\* C11: in a run state with a constant target at or above the commanded speed
\* and the motor current never above the acceleration current limit, no tick
\* lowers the commanded speed or takes it past the target, the target is
\* reached within ceil((target - start) / rate per tick) ticks of ramping, and
\* a ramp from 0 to 12000 rpm at 50000 rpm/s reaches it on the 240th tick
C11_SpeedRamp ==
    /\ []RampBound
    /\ [][(RunTick /\ ULe(g_ulSpeed, TargetFixed)) =>
              (UGe(g_ulSpeed', g_ulSpeed) /\ ULe(g_ulSpeed', TargetFixed))]_vars

C11_Witness ==
    /\ g_ulState = STATE_RUN
    /\ g_sParameters.ulTargetSpeed = ScenarioTarget.rpm
    /\ g_sParameters.usAccel = 50000
    /\ g_ulSpeed = TargetFixed
    /\ hRamp = [start |-> 0, ticks |-> 240]

\* C12: in a run state the acceleration rate and the deceleration rate the
\* last ramp step applied (the handler stores the rate it applies) are at most
\* usAccel << 16 and usDecel << 16
C12_RateWithinParameter ==
    HasBit(g_ulState, STATE_FLAG_RUN) =>
        /\ ULe(g_ulAccelRate, Shl(g_sParameters.usAccel, 16))
        /\ ULe(g_ulDecelRate, Shl(g_sParameters.usDecel, 16))

\* what the ramp keeps instead: a relaxing rate passes the parameter by less
\* than one relaxation step of 15 << 16
C12_RateWithinOneStep ==
    HasBit(g_ulState, STATE_FLAG_RUN) =>
        /\ ULt(g_ulAccelRate, AddW(Shl(g_sParameters.usAccel, 16), 15 * 65536))
        /\ ULt(g_ulDecelRate, AddW(Shl(g_sParameters.usDecel, 16), 15 * 65536))

\* a relaxing acceleration rate applied above the parameter
C12_Witness ==
    /\ g_ulState = STATE_RUN
    /\ hLast.op = "overcurrent"
    /\ g_ucMotorStatus = "ACCEL"
    /\ UGt(g_ulAccelRate, Shl(g_sParameters.usAccel, 16))

\* the sensorless drive is inside the settling time that follows its startup
Settling == g_sParameters.ucModulationType = "SENSORLESS" /\ g_ulStateCount # 0

\* the run state of the direction of a stopping state
Resumed == IF g_ulState = STATE_STOPPING THEN STATE_RUN ELSE STATE_BACK_RUN

\* MainRun in a stopping state changes the state to the run state of the same
\* direction and nothing else
RunCancelsStop ==
    g_ulState \in {STATE_STOPPING, STATE_BACK_STOPPING} =>
        MainRun(St) = [St EXCEPT !.g_ulState = Resumed]

\* the tick with inputs in that follows MainRun in a stopping state ramps the
\* commanded speed towards the target speed parameter
TargetReverts(in) ==
    Millisecond(MainRun(St), in).g_ulSpeed
        = MainSpeedHandler(MainRun(St), TargetFixed, in).g_ulSpeed

\* C13 as stated: MainRun while stopping resumes the run state of the same
\* direction, leaves the commanded speed, the integrator and the duty cycle
\* unchanged, and the next tick ramps towards the target speed parameter
C13_AsStated ==
    g_ulState \in {STATE_STOPPING, STATE_BACK_STOPPING} =>
        /\ RunCancelsStop
        /\ \A in \in RampInputs : TargetReverts(in)

\* C13: MainRun while stopping resumes the run state of the same direction
\* and changes nothing else; the next tick ramps towards the target speed
\* parameter, except inside the sensorless settling time, where it holds the
\* commanded speed
C13_RunCancelsStop ==
    g_ulState \in {STATE_STOPPING, STATE_BACK_STOPPING} =>
        /\ RunCancelsStop
        /\ \A in \in RampInputs :
               IF Settling
               THEN Millisecond(MainRun(St), in).g_ulSpeed = g_ulSpeed
               ELSE TargetReverts(in)

C13_Witness ==
    /\ hLast.op = "MainRun"
    /\ hLast.state = STATE_STOPPING
    /\ g_ulState = STATE_RUN
    /\ g_ulSpeed = hLast.speed
    /\ g_ulSpeed # 0
    /\ ULt(g_ulSpeed, TargetFixed)
    /\ g_lSpeedIntegrator # 0

\* the stopping state of the direction of a run state
Stopping == IF g_ulState = STATE_RUN THEN STATE_STOPPING ELSE STATE_BACK_STOPPING

\* C14: MainStop in STATE_RUN (STATE_BACK_RUN) changes the state to
\* STATE_STOPPING (STATE_BACK_STOPPING), sets the deceleration rate to
\* usDecel << 16 unless the motor status is decelerating, in which case the
\* rate is kept, and changes nothing else
C14_StopFromRun ==
    IsRun(g_ulState) =>
        MainStop(St) = [St EXCEPT !.g_ulState = Stopping,
                                  !.g_ulDecelRate =
                                      IF g_ucMotorStatus = "DECEL"
                                      THEN g_ulDecelRate
                                      ELSE Shl(g_sParameters.usDecel, 16)]

C14_Witness ==
    /\ hLast.op = "MainStop"
    /\ hLast.state = STATE_RUN
    /\ g_ulState = STATE_STOPPING
    /\ g_ulSpeed = hLast.speed
    /\ g_ulSpeed # 0
    /\ g_ulDecelRate = Shl(g_sParameters.usDecel, 16)

\* the drive in state n is stopped with the motor status stop and no PWM output enabled
StoppedOff(n) ==
    /\ n.g_ulState = STATE_STOPPED
    /\ n.g_ucMotorStatus = "STOP"
    /\ n.pwmOutputs = {}

\* state m has the commutation state of state n: the hall state last
\* commutated for and the position in the startup sequence
SameCommutation(m, n) ==
    /\ m.trapHall = n.trapHall
    /\ m.g_ucStartupHallIndex = n.g_ucStartupHallIndex

\* MainStop in a startup state stops the drive at once, and neither the
\* commutation timer nor a millisecond tick commutates or enables an output
\* afterwards
StopInStartup ==
    HasBit(g_ulState, STATE_FLAG_STARTUP) =>
        /\ StoppedOff(MainStop(St))
        /\ SameCommutation(MainStop(St), St)
        /\ \A h \in Halls : Timer0AIntHandler(MainStop(St), h) = MainStop(St)
        /\ \A in \in RampInputs :
               /\ StoppedOff(Millisecond(MainStop(St), in))
               /\ SameCommutation(Millisecond(MainStop(St), in), St)

\* C15: MainStop in a startup state, of either direction and any startup
\* ordinal, leaves the drive stopped with the motor status stop and the PWM
\* outputs disabled, and from a stopped state no step other than MainRun
\* leaves the stopped state, commutates or enables an output
C15_StopInStartup ==
    /\ [](StopInStartup /\ (g_ulState = STATE_STOPPED => StoppedOff(St)))
    /\ [][(g_ulState = STATE_STOPPED /\ hLast'.op # "MainRun") =>
              (StoppedOff(St)' /\ SameCommutation(St', St))]_vars

C15_Witness ==
    /\ hLast.op = "Timer0AIntHandler"
    /\ hLast.state = STATE_STOPPED
    /\ g_ulStartupState = 3
    /\ hCmds = 3
    /\ StoppedOff(St)

\* the state a direction command leaves: a run state of the other direction
\* starts reversing, a reversal away from the requested direction is
\* cancelled, and every other state is kept
DirectionState(ulState, bForward) ==
    IF bForward
    THEN CASE ulState = STATE_BACK_RUN -> STATE_BACK_REV
           [] ulState = STATE_REV      -> STATE_RUN
           [] OTHER                    -> ulState
    ELSE CASE ulState = STATE_RUN      -> STATE_REV
           [] ulState = STATE_BACK_REV -> STATE_BACK_RUN
           [] OTHER                    -> ulState

\* C16: MainSetDirection(d) in the run state of the other direction enters
\* the reversing state of the present direction; in the reversing state that
\* leaves direction d it returns to the run state of direction d; no call
\* does both, and MainSetDirection changes nothing but the state and the
\* deceleration rate
C16_SetDirection ==
    \A bForward \in BOOLEAN :
        /\ MainSetDirection(St, bForward).g_ulState = DirectionState(g_ulState, bForward)
        /\ [MainSetDirection(St, bForward) EXCEPT !.g_ulState = g_ulState,
                                                   !.g_ulDecelRate = g_ulDecelRate] = St

C16_Witness ==
    /\ hLast = [op |-> "UIDirectionSet", arg |-> 0, state |-> STATE_REV,
                speed |-> g_ulSpeed]
    /\ g_ulState = STATE_RUN
    /\ g_ulSpeed # 0

\* the run state a reversing state ends in
Reversed(ulState) == IF ulState = STATE_REV THEN STATE_BACK_RUN ELSE STATE_RUN

\* a tick in a reversing state does not raise the commanded speed, keeps the
\* state while the speed is not zero, and enters the run state of the other
\* direction when it brings the speed to zero
ReversingTick ==
    (g_ulState \in {STATE_REV, STATE_BACK_REV} /\ hCmds' = hCmds) =>
        /\ ULe(g_ulSpeed', g_ulSpeed)
        /\ g_ulSpeed' # 0 => g_ulState' = g_ulState
        /\ (g_ulSpeed # 0 /\ g_ulSpeed' = 0) => g_ulState' = Reversed(g_ulState)

\* C17: in a reversing state, with no further command or fault, the direction
\* is kept while the commanded speed is not zero, no tick raises the
\* commanded speed, and the drive eventually is in the run state of the other
\* direction at speed zero
C17_Reversal ==
    /\ [][ReversingTick]_vars
    /\ \A ulState \in {STATE_REV, STATE_BACK_REV} :
           (g_ulState = ulState /\ hCmds = hMax)
               ~> (g_ulState = Reversed(ulState) /\ g_ulSpeed = 0)

\* what the drive keeps: the same, for a reversal that starts at a commanded
\* speed other than zero
C17_ReversalFromSpeed ==
    /\ [][ReversingTick]_vars
    /\ \A ulState \in {STATE_REV, STATE_BACK_REV} :
           (g_ulState = ulState /\ hCmds = hMax /\ g_ulSpeed # 0)
               ~> (g_ulState = Reversed(ulState) /\ g_ulSpeed = 0)

\* a reversal commanded at speed zero: the speed handler returns at once and
\* the drive stays in the reversing state
C17_Stuck ==
    /\ hLast.op = "UIDirectionSet"
    /\ hLast.state = STATE_RUN
    /\ hLast.speed = 0
    /\ g_ulState = STATE_REV
    /\ g_ulSpeed = 0
    /\ \A in \in RampInputs : Millisecond(St, in).g_ulState = STATE_REV

\* no tick in a stopping state raises the commanded speed
StoppingTick ==
    (g_ulState \in {STATE_STOPPING, STATE_BACK_STOPPING} /\ hCmds' = hCmds) =>
        ULe(g_ulSpeed', g_ulSpeed)

\* C18: after MainStop in a run state, with a deceleration parameter above
\* zero, the bus voltage below the deceleration voltage limit and no further
\* command or fault, no tick raises the commanded speed and the drive
\* eventually is stopped with the PWM outputs off and the commanded speed zero
C18_StopCompletes ==
    /\ [][StoppingTick]_vars
    /\ (g_ulState \in {STATE_STOPPING, STATE_BACK_STOPPING} /\ hCmds = hMax)
           ~> (StoppedOff(St) /\ g_ulSpeed = 0)

\* what the drive keeps: the same, for a stop commanded at a commanded speed
\* other than zero
C18_StopFromSpeed ==
    /\ [][StoppingTick]_vars
    /\ (/\ g_ulState \in {STATE_STOPPING, STATE_BACK_STOPPING}
        /\ hCmds = hMax
        /\ g_ulSpeed # 0)
           ~> (StoppedOff(St) /\ g_ulSpeed = 0)

\* a stop commanded at speed zero: the speed handler returns at once and the
\* drive stays in the stopping state with its outputs enabled
C18_Stuck ==
    /\ hLast.op = "MainStop"
    /\ hLast.state = STATE_RUN
    /\ hLast.speed = 0
    /\ g_ulState = STATE_STOPPING
    /\ pwmOutputs # {}
    /\ \A in \in RampInputs : Millisecond(St, in).g_ulState = STATE_STOPPING

\* the commanded speed, the electrical angle and the integrator of state n are zero
RampReset(n) ==
    /\ n.g_ulSpeed = 0
    /\ n.g_ulAngle = 0
    /\ n.g_lSpeedIntegrator = 0

\* state n has the commanded speed, the electrical angle and the integrator of state m
RampKept(n, m) ==
    /\ n.g_ulSpeed = m.g_ulSpeed
    /\ n.g_ulAngle = m.g_ulAngle
    /\ n.g_lSpeedIntegrator = m.g_lSpeedIntegrator

\* the precharge countdown reaches zero on the next tick
PrechargeEnds == HasBit(g_ulState, STATE_FLAG_PRECHARGE) /\ g_ulStateCount = 1

\* C19 as stated: the tick that ends the precharge leaves the commanded
\* speed, the electrical angle and the integrator zero, on the way to the run
\* state and on the way to the startup state
C19_AsStated ==
    PrechargeEnds =>
        \A in \in RampInputs :
            /\ ~HasBit(Millisecond(St, in).g_ulState, STATE_FLAG_PRECHARGE)
            /\ RampReset(Millisecond(St, in))

\* C19: the tick that ends the precharge enters the run state with the
\* commanded speed, the electrical angle and the integrator zero; in a
\* sensorless drive it enters the startup state at ordinal 0 and leaves the
\* three as they were
C19_PrechargeEnd ==
    PrechargeEnds =>
        \A in \in RampInputs :
            IF g_sParameters.ucModulationType = "SENSORLESS"
            THEN /\ HasBit(Millisecond(St, in).g_ulState, STATE_FLAG_STARTUP)
                 /\ Millisecond(St, in).g_ulStartupState = 0
                 /\ RampKept(Millisecond(St, in), St)
            ELSE /\ IsRun(Millisecond(St, in).g_ulState)
                 /\ RampReset(Millisecond(St, in))

\* a startup entered with the commanded speed an earlier startup left
C19_Witness ==
    /\ hLast.op = "MainRun"
    /\ g_ulState = STATE_STARTUP
    /\ g_ulStartupState = 0
    /\ hTicks = g_sParameters.ucPrechargeTime + 6
    /\ g_ulSpeed # 0

\* a millisecond tick that finds the drive in a startup state: the ordinal
\* advances by one from 0, 1 and 2, from 3 once the commanded speed is above
\* the end speed, starting the settling count, and from 4 when the settling
\* count runs out, which is the only way into the run state
StartupTick ==
    (HasBit(g_ulState, STATE_FLAG_STARTUP) /\ hCmds' = hCmds) =>
        /\ g_ulStartupState' \in {g_ulStartupState, g_ulStartupState + 1}
        /\ g_ulStartupState \in {0, 1, 2} => g_ulStartupState' = g_ulStartupState + 1
        /\ g_ulStartupState = 3 =>
               IF UGt(g_ulSpeed, Shl(g_sParameters.ulSensorlessEndSpeed, 14))
               THEN g_ulStartupState' = 4 /\ g_ulStateCount' = 10
               ELSE g_ulStartupState' = 3
        /\ g_ulStartupState = 4 =>
               /\ g_ulStateCount \in 1..10
               /\ IF g_ulStateCount = 1
                  THEN g_ulStartupState' = 5
                  ELSE g_ulStartupState' = 4 /\ g_ulStateCount' = g_ulStateCount - 1
        /\ IF g_ulStartupState' = 5
           THEN /\ g_ulState' = (IF g_ulState = STATE_STARTUP
                                 THEN STATE_RUN ELSE STATE_BACK_RUN)
                /\ g_ulAccelRate' = Shl(g_sParameters.usAccel, 16)
                /\ g_ulDecelRate' = Shl(g_sParameters.usDecel, 16)
           ELSE g_ulState' = g_ulState

Counted(c, in) ==
    CASE c = "temperatureErrorCnt" -> in.temp > g_sParameters.ucMaxTemperature
      [] c = "lowBusVoltageCnt"    -> ULt(in.vbus, g_sParameters.ulMinVBus)
      [] c = "highBusVoltageCnt"   -> UGt(in.vbus, g_sParameters.ulMaxVBus)
      [] c = "currentLowLimitCnt"  -> /\ g_sParameters.sMinCurrent # 0
                                      /\ in.current < g_sParameters.sMinCurrent
                                      /\ g_ulState \in {STATE_RUN, STATE_REV}
      [] c = "currentHighLimitCnt" -> /\ g_sParameters.sMaxCurrent # 0
                                      /\ in.current > g_sParameters.sMaxCurrent

\* MainCheckFaults with the readings in: every counter is one more after a
\* counted reading and zero after any other; a count above the limit stops the
\* drive and latches the fault, a count up to the limit leaves the fault as it was
Debounced(in) ==
    LET Checked(n) ==
            \A c \in Counters :
                /\ n.errCnt[c] = IF Counted(c, in) THEN errCnt[c] + 1 ELSE 0
                /\ IF n.errCnt[c] > DebounceLimit(c)
                   THEN /\ HasBit(n.g_ulFaultFlags, DebounceFault(c))
                        /\ n.g_ulState = STATE_STOPPED
                        /\ n.g_ulDutyCycle = 0
                   ELSE HasBit(n.g_ulFaultFlags, DebounceFault(c))
                            = HasBit(g_ulFaultFlags, DebounceFault(c))
    IN  Checked(MainCheckFaults(St, in))

C8_IntegratorInRange ==
    /\ 0 <= g_lSpeedIntegrator
    /\ g_lSpeedIntegrator <= g_lSpeedIntegratorMax

\* a write of the integral gain has left the integrator above its maximum
C8_Witness ==
    /\ hLast.op = "UIFAdjI"
    /\ HasBit(g_ulState, STATE_FLAG_RUN)
    /\ g_lSpeedIntegrator > g_lSpeedIntegratorMax

\* the current-limit branch of the millisecond tick ran: only it writes the
\* motor current it saw last
CurrentLimited == sPreviousMotorCurrent' # sPreviousMotorCurrent

\* the duty cycle after the step is not above the one before, is at most
\* DUTY_CYCLE_MAX, and the PI controller has not run
DutyReduced ==
    /\ ULe(g_ulDutyCycle', g_ulDutyCycle)
    /\ g_ulDutyCycle' \in 0..DUTY_CYCLE_MAX
    /\ g_lSpeedIntegrator' = g_lSpeedIntegrator

\* C10 as stated: a run tick with the motor current above a non-zero target
\* current does not run the PI controller and reduces the duty cycle, which
\* stays within 0..DUTY_CYCLE_MAX whatever the current
C10_CurrentLimit == [][CurrentLimited => DutyReduced]_vars

\* what the tick keeps: the same for a current of up to twice the target and
\* a duty cycle that was within 0..DUTY_CYCLE_MAX
C10_UpToTwice ==
    [][(/\ CurrentLimited
        /\ sPreviousMotorCurrent' <= 2 * g_sParameters.sTargetCurrent
        /\ g_ulDutyCycle \in 0..DUTY_CYCLE_MAX) => DutyReduced]_vars

\* a current of two and a half times the target has taken the duty cycle
\* below zero, which as an unsigned long is above DUTY_CYCLE_MAX
C10_Witness ==
    /\ HasBit(g_ulState, STATE_FLAG_RUN)
    /\ sPreviousMotorCurrent > 2 * g_sParameters.sTargetCurrent
    /\ UGt(g_ulDutyCycle, DUTY_CYCLE_MAX)

\* the commanded speed and the ramp rates of state n
SpeedOf(n) ==
    <<n.g_ulSpeed, n.g_ulSpeedWhole, n.g_ulSpeedFract, n.g_ulAccelRate,
      n.g_ulDecelRate>>

\* a tick in a state with the run flag ramps the commanded speed towards
\* ulTarget (the bus voltage and the motor current being below their limits)
RampsTowards(ulTarget) ==
    SpeedOf(St)' = SpeedOf(MainSpeedHandler(St, ulTarget, InRange))

\* the settling time of the sensorless drive: its count is 10 at the handoff
\* from startup and one less after each of the run ticks that follow
SettleCount ==
    /\ (HasBit(g_ulState, STATE_FLAG_STARTUP) /\ HasBit(g_ulState', STATE_FLAG_RUN))
           => g_ulStateCount' = 10
    /\ (HasBit(g_ulState, STATE_FLAG_RUN) /\ hCmds' = hCmds /\ Settling)
           => g_ulStateCount' = g_ulStateCount - 1
    /\ (HasBit(g_ulState, STATE_FLAG_RUN) /\ g_ulStateCount = 0)
           => g_ulStateCount' = 0 \/ ~HasBit(g_ulState', STATE_FLAG_RUN)

\* C21: a tick in a state with the run flag hands the speed ramp the target 0
\* if the stopping or the reversing flag is set and ulTargetSpeed << 14
\* otherwise, except that the sensorless drive hands it the commanded speed,
\* which therefore stays, in the first 10 run ticks after the startup handoff
C21_TickTarget ==
    /\ [][SettleCount]_vars
    /\ [][(HasBit(g_ulState, STATE_FLAG_RUN) /\ hCmds' = hCmds) =>
              IF Settling
              THEN RampsTowards(g_ulSpeed) /\ g_ulSpeed' = g_ulSpeed
              ELSE IF HasBit(g_ulState, STATE_FLAG_STOPPING)
                      \/ HasBit(g_ulState, STATE_FLAG_REV)
              THEN RampsTowards(0)
              ELSE RampsTowards(TargetFixed)]_vars

\* the tenth run tick after the handoff has passed with the commanded speed
\* still the one of the handoff, below the target
C21_Witness ==
    /\ g_sParameters.ucModulationType = "SENSORLESS"
    /\ g_ulState = STATE_RUN
    /\ g_ulStartupState = 5
    /\ g_ulStateCount = 0
    /\ hRamp.ticks = 0
    /\ g_ulSpeed # 0
    /\ ULt(g_ulSpeed, TargetFixed)

\* the last event was a watchdog expiry or a tick with the system-error signal
Alarmed == hLast.op \in {"WatchdogIntHandler", "sysfault"}

\* the drive is stopped with a fault in the registry, so that MainRun is refused
StoppedOnFault ==
    /\ g_ulState = STATE_STOPPED
    /\ g_ulFaultFlags # 0
    /\ MainRun(St) = St

\* C22 as stated: a watchdog expiry and a tick that sees the system-error
\* signal each stop the drive and latch a fault, in every drive state, so that
\* MainRun is refused
C22_ImmediateFault == Alarmed => StoppedOnFault

\* what the handlers keep: a watchdog expiry in a state with the run flag
\* stops the drive and latches a fault, and a tick that sees the system-error
\* signal stops the drive
C22_Observed ==
    /\ (hLast.op = "WatchdogIntHandler" /\ HasBit(hLast.state, STATE_FLAG_RUN))
           => StoppedOnFault
    /\ hLast.op = "sysfault" => g_ulState = STATE_STOPPED

\* the system-error signal has stopped a running drive without a fault in the
\* registry, and MainRun starts the precharge again
C22_Witness ==
    /\ hLast.op = "sysfault"
    /\ HasBit(hLast.state, STATE_FLAG_RUN)
    /\ g_ulFaultFlags = 0
    /\ MainRun(St).g_ulState = STATE_PRECHARGE

\* state n is the present state but for the registry, which holds ulFlags, and
\* the fault indicator, which blinks at usRate with usPeriod on
OnlyRegistered(n, ulFlags, usRate, usPeriod) ==
    n = [St EXCEPT !.g_ulFaultFlags = ulFlags,
                   !.g_pusBlinkRate[1] = usRate,
                   !.g_pusBlinkPeriod[1] = usPeriod]

\* MainSetFault with a warning code, no fault being latched, changes the
\* registry as the precedence rule says, arms the slow blink and nothing else
WarningFrame ==
    ~MainIsFaulted(St) =>
        \A w \in Warnings :
            OnlyRegistered(MainSetFault(St, w),
                           IF g_ulFaultFlags = 0 THEN w ELSE g_ulFaultFlags, 200, 100)

\* C23 as stated: besides, MainSetFault stops the drive only in a call that
\* newly latches a fault; with a fault already latched it changes the fault
\* indicator at most
C23_AsStated ==
    /\ WarningFrame
    /\ MainIsFaulted(St) =>
           \A c \in Faults \cup Warnings :
               OnlyRegistered(MainSetFault(St, c), g_ulFaultFlags, 20, 10)

\* C23: MainSetFault with a warning code and no fault latched leaves the drive
\* state, commanded speed, duty cycle and outputs as they are and arms the
\* slow blink; MainSetFault runs MainEmergencyStop whenever the registry holds
\* a fault after the call, whether the call latched it or found it latched
C23_WarningFrame ==
    /\ WarningFrame
    /\ \A c \in Faults \cup Warnings :
           (MainIsFaulted(St) \/ c \in Faults) =>
               MainSetFault(St, c) =
                   UIFaultLEDBlink(
                       MainEmergencyStop(
                           [St EXCEPT !.g_ulFaultFlags =
                                          IF MainIsFaulted(St) THEN @ ELSE c]),
                       20, 10)

\* a warning was raised in a running drive with an empty registry
C23_Witness ==
    /\ hLast.op = "MainSetFault"
    /\ hLast.arg \in Warnings
    /\ HasBit(hLast.state, STATE_FLAG_RUN)
    /\ g_ulState = hLast.state
    /\ g_ulFaultFlags = hLast.arg
    /\ g_pusBlinkRate[1] = 200
    /\ g_pusBlinkPeriod[1] = 100

\* ---------------------------------------------------------------------------
\* C24: how the fault registry returns to zero
\* ---------------------------------------------------------------------------
\* this step takes the registry from nonzero to zero
Cleared == g_ulFaultFlags # 0 /\ g_ulFaultFlags' = 0

\* this step is a call of MainClearFaults by one of the callers in ops
ClearBy(ops) == hCmds' = hCmds + 1 /\ hLast'.op \in ops

ClearCallers == {"MainClearFaults", "UICheckAndSetSpeed", "initHandPiece"}

C25_RunAtomic ==
    [][(MainIsFaulted(St) /\ g_ulState = STATE_STOPPED) => g_ulState' = STATE_STOPPED]_vars

\* what holds: a MainRun that is not preempted between its fault test and its
\* masked section refuses to start, and a fault cannot be latched in a drive
\* that is not stopped unless a MainRun was under way when it was latched
C25_Observed ==
    /\ MainIsFaulted(St) => MainRun(St) = St
    /\ [][(MainIsFaulted(St) /\ g_ulState = STATE_STOPPED /\ pcMain.at # "MainRun")
              => g_ulState' = STATE_STOPPED]_vars

\* the drive has reached a run state with the current-offset fault latched
C25_Witness ==
    /\ g_ulFaultFlags = FAULT_CURRENT_OFFSET
    /\ HasBit(g_ulState, STATE_FLAG_RUN)
    /\ hLast.op = "ADC0IntHandler"
\* ---------------------------------------------------------------------------
\* C27: the precedence of faults over warnings when MainSetFault is preempted
\* ---------------------------------------------------------------------------
\* C27: a registry that holds a fault holds a fault after every step, the
\* registry write of a preempted MainSetFault(warning) included: a warning
\* never replaces a latched fault
C27_FaultKept ==
    [][MainIsFaulted(St) => Lo16(g_ulFaultFlags') # 0]_vars

\* what holds: the two steps of MainSetFault taken together are MainSetFault,
\* and a step taken while no MainSetFault of the background loop is under way
\* keeps a latched fault
C27_Observed ==
    /\ \A c \in Faults \cup Warnings :
           MainSetFaultWrite(St, c, MainSetFaultTest(g_ulFaultFlags, c)) = MainSetFault(St, c)
    /\ [][(MainIsFaulted(St) /\ pcMain.at # "MainSetFault")
              => g_ulFaultFlags' = g_ulFaultFlags]_vars

\* a warning has replaced the fault that the ADC interrupt latched while the
\* background loop was inside MainSetFault
C27_Witness ==
    /\ g_ulFaultFlags \in Warnings
    /\ FAULT_CURRENT_OFFSET \in {hSeq[i] : i \in 1..Len(hSeq)}
    /\ pcMain.at = "loop"
\* ---------------------------------------------------------------------------
\* C26: a millisecond tick preempted by the watchdog interrupt
\* ---------------------------------------------------------------------------
\* this step is a tick that the watchdog interrupt preempted
PreemptedTick == hCmds' = hCmds + 1 /\ hLast'.op = "WatchdogInTick"

\* C26: at the end of a tick that the watchdog interrupt preempted, the drive
\* is stopped, the commanded speed and the integrator are zero, and the duty
\* cycle and the published duty cycles are those of the emergency stop
C26_StopKept ==
    [][PreemptedTick =>
          /\ g_ulState' = STATE_STOPPED
          /\ g_ulSpeed' = 0
          /\ g_lSpeedIntegrator' = 0
          /\ g_ulDutyCycle' = 0
          /\ g_ulPWMDutyCycle' = MainEmergencyStop(St).g_ulPWMDutyCycle]_vars

\* what holds: at the end of the preempted tick the drive state is stopped,
\* the watchdog fault is latched and every output is off
C26_Observed ==
    [][PreemptedTick =>
          /\ g_ulState' = STATE_STOPPED
          /\ MainIsFaulted(St)'
          /\ pwmOutputs' = {}]_vars

\* the tick that the watchdog preempted has left a stopped drive with a
\* commanded speed above zero
C26_Witness ==
    /\ hLast.op = "WatchdogInTick"
    /\ g_ulState = STATE_STOPPED
    /\ g_ulFaultFlags = FAULT_WATCHDOG
    /\ g_ulSpeed # 0
\* ---------------------------------------------------------------------------
\* C28: the duty cycles the PWM interrupt programs
\* ---------------------------------------------------------------------------
\* the three values of a triple are one value; in the trapezoid drive every
\* publish (PWMSetDutyCycle of the duty cycle, PWMOutputOff) writes such a triple
Uniform(triple) == triple[1] = triple[2] /\ triple[2] = triple[3]

\* C28: the three phase values last programmed into the hardware come from
\* one publish
C28_NoTornTriple == Uniform(pwmApplied)

\* what holds: outside PWMOutputOff the published triple is whole, and
\* PWMSetDutyCycle and the two parts of MainEmergencyStop taken together
\* publish and program whole triples
C28_Observed ==
    /\ pcMain.at # "PWMOutputOff" => Uniform(g_ulPWMDutyCycle)
    /\ Uniform(PWMSetDutyCycle(St, g_ulDutyCycle, g_ulDutyCycle, g_ulDutyCycle).g_ulPWMDutyCycle)
    /\ \A ulWritten \in {1, 2} :
           MainEmergencyStopEnd(MainEmergencyStopBegin(St, ulWritten)) = MainEmergencyStop(St)

\* the PWM interrupt has programmed the off value for phase A next to the
\* duty cycle of the last tick for phases B and C
C28_Witness ==
    /\ pwmApplied[1] = PWM_OFF_DUTY
    /\ pwmApplied[3] # PWM_OFF_DUTY
    /\ pwmApplied[3] # 0
    /\ pcMain.at = "PWMOutputOff"
\* ---------------------------------------------------------------------------
\* C9, C29, C30: the speed controller
\* ---------------------------------------------------------------------------
\* measured speeds at, below and above the target speed
MeasuredSpeeds == {0, g_sParameters.ulTargetSpeed, 2 * g_sParameters.ulTargetSpeed}

\* the state SpeedControllerPIU leaves when it finds the measured speed v
PIUAt(v, ub) == SpeedControllerPIU([St EXCEPT !.g_ulMeasuredSpeed = v], ub)

\* C9: SpeedControllerPIU returns a duty cycle in 0..DUTY_CYCLE_MAX, for every
\* measured speed and every outcome of an overflowing sum, from every reachable
\* integrator, offset, windup term and gain pair; and a tick of a run state
\* leaves such a duty cycle
C9_DutyInRange ==
    /\ \A v \in MeasuredSpeeds : \A ub \in UBOutcomes :
           PIUAt(v, ub).g_ulDutyCycle \in 0..DUTY_CYCLE_MAX
    /\ g_ulDutyCycle \in 0..DUTY_CYCLE_MAX

\* the controller has saturated: a tick left the maximum duty cycle and a
\* windup term
C9_Witness ==
    /\ IsRun(g_ulState)
    /\ g_ulDutyCycle = DUTY_CYCLE_MAX
    /\ g_lSpeedIntegratorWE < 0

\* the integral term less the offset that the next update computes
Compensated(n) ==
    MainLongMul(n.g_lFAdjI, n.g_lSpeedIntegrator) - n.g_lSpeedIntegratorOffset

\* the gain has been switched and the next update is the first after it
FirstAfterSwitch ==
    /\ pcMain.at = "loop"
    /\ g_ucIntegralGainChanged # 0
    /\ g_ucIntegralOffsetUpdated = 0

\* C29: on the first update after the gain switch, the integral term less the
\* offset is the integrator times the gain in use before the switch
C29_Compensated ==
    FirstAfterSwitch =>
        \A v \in MeasuredSpeeds :
            Compensated(PIUAt(v, "wrap")) =
                MainLongMul(g_sParameters.lFAdjI, PIUAt(v, "wrap").g_lSpeedIntegrator)

\* what holds: the same, if no update ran between the write of the gain and
\* the write of the flag (the gain on record is still the first gain); and
\* the offset, once computed, is held
C29_Observed ==
    /\ (FirstAfterSwitch /\ g_lFAdjIPrev = g_sParameters.lFAdjI) =>
           \A v \in MeasuredSpeeds :
               Compensated(PIUAt(v, "wrap")) =
                   MainLongMul(g_sParameters.lFAdjI, PIUAt(v, "wrap").g_lSpeedIntegrator)
    /\ [][(g_ucIntegralOffsetUpdated = 1 /\ g_ucIntegralOffsetUpdated' = 1)
              => g_lSpeedIntegratorOffset' = g_lSpeedIntegratorOffset]_vars

\* an update ran between the two writes and the offset was then computed
\* against the second gain: it is zero with the integrator loaded
C29_Witness ==
    /\ g_ucIntegralOffsetUpdated = 1
    /\ g_lSpeedIntegratorOffset = 0
    /\ g_lFAdjIPrev = g_sParameters.lPAdjI
    /\ g_lSpeedIntegrator # 0

Magnitude(x) == IF x < 0 THEN -x ELSE x

\* the windup term times the decay constant
Decayed == MainLongMul(Ka, g_lSpeedIntegratorWE)

\* C30 as stated: an update that does not saturate brings a windup term that
\* is not zero strictly closer to zero, so that it is zero after finitely many
\* such updates
C30_AsStated ==
    g_lSpeedIntegratorWE # 0 => Magnitude(Decayed) < Magnitude(g_lSpeedIntegratorWE)

\* C30: the windup term is never positive; an update leaves the decayed term
\* or, with the output at the maximum, a negative term; the magnitude of the
\* decayed term is not above that of the term, and below it for terms under
\* -1; the decayed term of -1 is -1
C30_Windup ==
    /\ g_lSpeedIntegratorWE <= 0
    /\ \A v \in MeasuredSpeeds : \A ub \in UBOutcomes :
           \/ PIUAt(v, ub).g_lSpeedIntegratorWE = Decayed
           \/ /\ PIUAt(v, ub).g_ulDutyCycle = DUTY_CYCLE_MAX
              /\ PIUAt(v, ub).g_lSpeedIntegratorWE < 0
    /\ Magnitude(Decayed) <= Magnitude(g_lSpeedIntegratorWE)
    /\ g_lSpeedIntegratorWE < -1 => Magnitude(Decayed) < Magnitude(g_lSpeedIntegratorWE)
    /\ g_lSpeedIntegratorWE = -1 => Decayed = -1

\* the windup term has decayed to -1 and the output is no longer at the maximum
C30_Witness ==
    /\ IsRun(g_ulState)
    /\ g_lSpeedIntegratorWE = -1
    /\ g_ulDutyCycle < DUTY_CYCLE_MAX

\* the commutation timer, expiring in state s: in a startup state it commutates
\* for the entry of the hall sequence the index names, steps the index
\* cyclically, upward for a forward drive and downward for a backward drive,
\* and arms the timer with the startup period; in any other state it leaves
\* the index alone and the timer stopped
StartupCommutation(s) ==
    LET n == Timer0AExpiry(s, 1)
    IN  IF HasBit(s.g_ulState, STATE_FLAG_STARTUP)
        THEN /\ n.trapHall = ucHallSequence[s.g_ucStartupHallIndex + 1]
             /\ n.g_ucStartupHallIndex =
                    IF HasBit(s.g_ulState, STATE_FLAG_FORWARD)
                    THEN (s.g_ucStartupHallIndex + 1) % 6
                    ELSE (s.g_ucStartupHallIndex - 1) % 6
             /\ n.timer0A = [ulLoad |-> s.g_ulStartupPeriod, bEnabled |-> TRUE]
        ELSE /\ n.g_ucStartupHallIndex = s.g_ucStartupHallIndex
             /\ ~n.timer0A.bEnabled

ShortLatched(ulFlags) == HasBit(ulFlags, FAULT_MOTOR_SHORT)

\* C32: once the motor short fault is in the registry no step removes it, and
\* the drive stays stopped
C32_NotClearable ==
    [][ShortLatched(g_ulFaultFlags) =>
           (ShortLatched(g_ulFaultFlags') /\ g_ulState' = STATE_STOPPED)]_vars

\* what holds instead: the drive is stopped while the motor short is latched,
\* MainRun does nothing then, the hand-piece initialisation leaves the fault
\* in the registry, and the fault leaves the registry only through
\* MainClearFaults, called for the clear-fault parameter or by the trigger press
C32_Observed ==
    /\ [](ShortLatched(g_ulFaultFlags) =>
             /\ g_ulState = STATE_STOPPED
             /\ MainRun(St) = St
             /\ \A b \in BOOLEAN : ShortLatched(initHandPiece(St, b).g_ulFaultFlags))
    /\ [][(ShortLatched(g_ulFaultFlags) /\ ~ShortLatched(g_ulFaultFlags')) =>
              ClearBy({"MainClearFaults", "UICheckAndSetSpeed"})]_vars

\* the motor short is latched, and the trigger press would clear it and start
\* the drive
C32_Witness ==
    /\ ShortLatched(g_ulFaultFlags)
    /\ hLast.op = "UIPhaseShort"
    /\ UITriggerPress(St).g_ulFaultFlags = 0
    /\ HasBit(UITriggerPress(St).g_ulState, STATE_FLAG_PRECHARGE)

\* ---------------------------------------------------------------------------
\* C33: the PWM outputs of a stopped drive
\* ---------------------------------------------------------------------------
\* C33: whenever the drive state is stopped, all six PWM outputs are disabled
C33_StoppedOutputsOff == g_ulState = STATE_STOPPED => pwmOutputs = {}

\* what holds instead: an emergency stop leaves the six outputs disabled when
\* it returns, and the outputs found enabled in the stopped state are among
\* the three the precharge sequencer of the PWM handler enables
C33_Observed ==
    /\ MainEmergencyStop(St).pwmOutputs = {}
    /\ g_ulState = STATE_STOPPED => pwmOutputs \subseteq {1, 3, 5}

\* an emergency stop during the first milliseconds after MainRun has been
\* followed by the precharge sequencer enabling its three outputs
C33_Witness ==
    /\ g_ulState = STATE_STOPPED
    /\ hLast.op = "MainEmergencyStop"
    /\ hLast.state = STATE_PRECHARGE
    /\ pwmOutputs = {1, 3, 5}

\* ---------------------------------------------------------------------------
\* C34: the low-current monitor in the two directions
\* ---------------------------------------------------------------------------
\* a millisecond with the motor current below the minimum, in state s
LowCurrentTick(s) == Millisecond(s, OutOfRange("currentLowLimitCnt"))

\* the tick counts the low reading, or, with the count at the limit, stops
\* the drive and latches the low-current fault
LowCurrentCounted(s) ==
    IF s.errCnt["currentLowLimitCnt"] < MAIN_ERROR_CURRENT_LIMIT
    THEN LowCurrentTick(s).errCnt["currentLowLimitCnt"] =
             s.errCnt["currentLowLimitCnt"] + 1
    ELSE /\ LowCurrentTick(s).g_ulState = STATE_STOPPED
         /\ LowCurrentTick(s).g_ulFaultFlags = FAULT_CURRENT_LOW

\* the tick does not count the low reading and latches nothing
LowCurrentIgnored(s) ==
    /\ LowCurrentTick(s).errCnt["currentLowLimitCnt"] = 0
    /\ LowCurrentTick(s).g_ulFaultFlags = s.g_ulFaultFlags

\* C34: with a nonzero minimum current, a tick with the motor current below it
\* counts towards the low-current fault, and the tick after 100 counted ones
\* latches the fault and stops the drive, while the drive runs backward or
\* reverses from backward as while it runs forward or reverses from forward
C34_BothDirections ==
    (g_ulFaultFlags = 0 /\
     g_ulState \in {STATE_RUN, STATE_REV, STATE_BACK_RUN, STATE_BACK_REV})
        => LowCurrentCounted(St)

\* what holds instead: the low reading is counted in the forward states only
C34_Observed ==
    g_ulFaultFlags = 0 =>
        IF g_ulState \in {STATE_RUN, STATE_REV}
        THEN LowCurrentCounted(St) ELSE LowCurrentIgnored(St)

\* the drive runs backward, and a tick with the current below the minimum
\* counts nothing and leaves it running
C34_Witness ==
    /\ g_ulState = STATE_BACK_RUN
    /\ g_ulFaultFlags = 0
    /\ LowCurrentTick(St).errCnt["currentLowLimitCnt"] = 0
    /\ LowCurrentTick(St).g_ulState = STATE_BACK_RUN

\* ---------------------------------------------------------------------------
\* C35: the direction of a running drive
\* ---------------------------------------------------------------------------
Forward(ulState) == HasBit(ulState, STATE_FLAG_FORWARD)

\* the step is no command and no fault event: a millisecond tick, or another
\* periodic interrupt
Periodic == hCmds' = hCmds

\* C35: a millisecond tick that finds the drive in the run-forward or the
\* run-backward state leaves the direction as it is, or leaves the drive
\* stopped, also when the target speed is zero (or, sensorless, below the end
\* speed of the startup) and the commanded speed ramps down to zero
C35_DirectionKept ==
    [][(IsRun(g_ulState) /\ Periodic) =>
           (g_ulState' = STATE_STOPPED \/ Forward(g_ulState') = Forward(g_ulState))]_vars

\* what holds instead: a tick leaves the run-forward state run-forward; it
\* leaves the run-backward state run-backward, or run-forward with the
\* commanded speed zero
C35_Observed ==
    [][(IsRun(g_ulState) /\ Periodic) =>
           \/ g_ulState' = g_ulState
           \/ g_ulState = STATE_BACK_RUN /\ g_ulState' = STATE_RUN /\ g_ulSpeed' = 0]_vars

\* the drive was started backward and runs forward, at speed zero, with no
\* direction command since
C35_Witness ==
    /\ g_ulState = STATE_RUN
    /\ g_ulSpeed = 0
    /\ g_sParameters.FLAG_DIR = "BACKWARD"
    /\ hLast.op = "MainRun"
    /\ hLast.state = STATE_STOPPED

\* ---------------------------------------------------------------------------
\* C36: commands in the states they do not handle
\* ---------------------------------------------------------------------------
StopUnhandled ==
    {STATE_STOPPED, STATE_PRECHARGE, STATE_BACK_PRECHARGE, STATE_STOPPING,
     STATE_BACK_STOPPING, STATE_REV, STATE_BACK_REV}

RunUnhandled ==
    {STATE_PRECHARGE, STATE_BACK_PRECHARGE, STATE_STARTUP, STATE_BACK_STARTUP,
     STATE_RUN, STATE_BACK_RUN, STATE_REV, STATE_BACK_REV}

DirectionUnhandled ==
    {STATE_STOPPED, STATE_PRECHARGE, STATE_BACK_PRECHARGE, STATE_STARTUP,
     STATE_BACK_STARTUP, STATE_STOPPING, STATE_BACK_STOPPING}

\* state n has the drive state, countdown, speed and rates of the current state
Untouched(n) ==
    /\ n.g_ulState = g_ulState
    /\ n.g_ulStateCount = g_ulStateCount
    /\ n.g_ulSpeed = g_ulSpeed
    /\ n.g_ulSpeedWhole = g_ulSpeedWhole
    /\ n.g_ulSpeedFract = g_ulSpeedFract
    /\ n.g_ulAccelRate = g_ulAccelRate
    /\ n.g_ulDecelRate = g_ulDecelRate

Relatched(c) ==
    Millisecond(MainClearFaults(St), OutOfRange(c)).g_ulFaultFlags = DebounceFault(c)

\* C37 as stated: once a debounced fault has latched and the registry has been
\* cleared, a reading that is still out of range on the next tick does not
\* latch the fault again
C37_AsStated ==
    \A c \in MonitorCounters : g_ulFaultFlags = DebounceFault(c) => ~Relatched(c)

\* C37: neither the latch nor MainClearFaults restarts a count.  The tick that
\* latches a debounced fault leaves its count above the limit; MainClearFaults
\* leaves the counts as they are; and with the fault latched and then cleared,
\* an out-of-range reading on the next tick latches it again exactly when the
\* count has not fallen below the limit since (which a low-current count has,
\* as it is kept only while the drive runs forward)
C37_Relatch ==
    /\ [](\A c \in MonitorCounters :
              g_ulFaultFlags = DebounceFault(c) =>
                  /\ MainClearFaults(St).errCnt = errCnt
                  /\ Relatched(c) <=> (/\ c # "currentLowLimitCnt"
                                       /\ errCnt[c] >= DebounceLimit(c)))
    /\ [][\A c \in MonitorCounters :
              (g_ulFaultFlags = 0 /\ g_ulFaultFlags' = DebounceFault(c)) =>
                  errCnt'[c] > DebounceLimit(c)]_vars

\* the high-current fault was latched, cleared, and latched again by the next tick
C37_Witness ==
    /\ hLast.op = "MainClearFaults"
    /\ g_ulFaultFlags = FAULT_CURRENT_HIGH
    /\ errCnt["currentHighLimitCnt"] = MAIN_ERROR_CURRENT_LIMIT + 2

\* ---------------------------------------------------------------------------
\* C38: the decay mode flag around the sensorless startup
\* ---------------------------------------------------------------------------
\* no startup sequence is under way: the drive is stopped or precharging, or
\* it has the run flag and the settle ticks after the handoff are over
StartupOver ==
    \/ g_ulState = STATE_STOPPED
    \/ HasBit(g_ulState, STATE_FLAG_PRECHARGE)
    \/ HasBit(g_ulState, STATE_FLAG_RUN) /\ g_ulStateCount = 0

\* C38: the decay mode flag of the parameter block, fast before the first
\* startup, is fast again after every startup sequence, however it ended
C38_DecayRestored == StartupOver => g_sParameters.FLAG_DECAY = "FAST"

\* what holds instead: the flag is fast until the first startup; a startup
\* that runs to the end of its settle ticks leaves the flag as the startup
\* saved it; and the flag is slow from startup ordinal 0 to that point
C38_Observed ==
    /\ (HasBit(g_ulState, STATE_FLAG_RUN) /\ g_ulStateCount = 0) =>
           g_sParameters.FLAG_DECAY = g_ucLocalDecayMode
    /\ (HasBit(g_ulState, STATE_FLAG_STARTUP) /\ g_ulStartupState > 0) =>
           g_sParameters.FLAG_DECAY = "SLOW"
    /\ [][g_sParameters.FLAG_DECAY' # g_sParameters.FLAG_DECAY =>
              \/ HasBit(g_ulState, STATE_FLAG_STARTUP) /\ g_ulStartupState = 0
              \/ HasBit(g_ulState, STATE_FLAG_RUN) /\ g_ulStateCount' = 1]_vars

\* a startup was stopped, a second startup has run to its end, and the flag
\* and the saved value are both slow
C38_Witness ==
    /\ hCmds = 3
    /\ hLast.op = "MainRun"
    /\ IsRun(g_ulState)
    /\ g_ulStateCount = 0
    /\ g_sParameters.FLAG_DECAY = "SLOW"
    /\ g_ucLocalDecayMode = "SLOW"

\* ---------------------------------------------------------------------------
\* C39: the end of the open-loop ramp
\* ---------------------------------------------------------------------------
\* the startup is over: the drive has been handed to the run state, or stopped
HandedOff == HasBit(g_ulState, STATE_FLAG_RUN) \/ g_ulState = STATE_STOPPED

\* C39: with the millisecond ticks continuing, a drive in a startup state is
\* eventually handed to the run state, unless it is stopped first
C39_StartupEnds == HasBit(g_ulState, STATE_FLAG_STARTUP) ~> HandedOff

\* what holds instead: the startup ends when the end speed of the ramp is
\* above its start speed
C39_Observed ==
    (/\ HasBit(g_ulState, STATE_FLAG_STARTUP)
     /\ g_sParameters.ulSensorlessEndSpeed > g_sParameters.ulSensorlessStartSpeed)
        ~> HandedOff

\* the ramp has reached its end speed, which is its start speed, in startup
\* ordinal 3, and a further millisecond changes nothing but the timer
C39_Witness ==
    /\ g_ulState = STATE_STARTUP
    /\ g_ulStartupState = 3
    /\ g_sParameters.ulSensorlessEndSpeed = g_sParameters.ulSensorlessStartSpeed
    /\ g_ulSpeed = Shl(g_sParameters.ulSensorlessEndSpeed, 14)
    /\ g_ulAccelRate = 0
    /\ \A in \in StartupInputs :
           /\ Millisecond(St, in).g_ulStartupState = 3
           /\ Millisecond(St, in).g_ulSpeed = g_ulSpeed
====
